---- MODULE Spec2Model ----
(***************************************************************************)
(* Configuration passes of the TrickHLA Python input layer.                *)
(*                                                                         *)
(* A pass is a straight-line Python program: the constructor of            *)
(* SpaceFOMPhysicalEntityObject, the constructor of JEODRefFrameTreeObject,*)
(* the wheelbot input file or the Roles-Test Master input file.  Each is   *)
(* written down as the sequence of its statements (a "script"); ip is the  *)
(* position of the statement executed next, and err the Python exception   *)
(* that aborted the pass.                                                  *)
(*                                                                         *)
(* TrickHLAObjectConfig, TrickHLAAttributeConfig, SpaceFOMRefFrameObject   *)
(* and SpaceFOMFederateConfig are imported by these files; their           *)
(* behaviour is taken from sections 3 and 4.1 of the specification.        *)
(***************************************************************************)
EXTENDS Naturals, Sequences, FiniteSets, TLC

VARIABLES
  pass,     \* which configuration pass runs
  ip,       \* index of the next statement of the pass's script
  args,     \* the inputs of the pass (constructor arguments)
  simName,  \* name field of each backing simulation instance (set_name)
  objs,     \* Python reference -> descriptor instance (also while under construction)
  built,    \* references whose constructor call has returned
  fed,      \* the federate configuration object
  err,      \* "None", or the exception that aborted the pass
  writes,   \* log of the set_name calls made on backing simulation instances
  sim,      \* input-file globals and the simulation executive (terminate time)
  fs,       \* format_code.py: the directories of the TrickHLA tree
  cwd,      \* format_code.py: the process working directory
  phase,    \* format_code.py: position in main
  out       \* format_code.py: messages printed and commands executed

vars == <<pass, ip, args, simName, objs, built, fed, err, writes, sim, fs, cwd, phase, out>>

\* The state of the formatting utility, untouched by a configuration pass.
fmtVars == <<fs, cwd, phase, out>>

(***************************************************************************)
(* Values.  Python's None is the string "None".                            *)
(***************************************************************************)
None == "None"

\* Instance names a caller may supply; '' is the empty Python string.
InstanceNames == {"", "Lander", "Rover"}

\* Names the backing instance may hold before the constructor runs.
PriorNames == {"", "Stale"}

\* S_define instance names of the backing simulation object.
SDefineNames == {"lander", "rover"}

\* A hook argument is either absent or the hook instance of its kind.
HookValues(kind) == {None, kind}

LagCompTypes == {"LAG_COMPENSATION_NONE", "LAG_COMPENSATION_SEND_SIDE"}

\* trick.TrickHLA.CONFIG_INITIALIZE + trick.TrickHLA.CONFIG_CYCLIC: the sum
\* of two distinct flag bits is the set of the two flags.
CONFIG_INITIALIZE == {"INITIALIZE"}
CONFIG_CYCLIC == {"CYCLIC"}
ConfigPlus(a, b) == a \cup b

(***************************************************************************)
(* TrickHLAAttributeConfig( FOM name, trick name, publish, subscribe,      *)
(* locally owned, config, encoding ): the AttributeDescriptor of the       *)
(* specification, section 3.                                               *)
(***************************************************************************)
TrickHLAAttributeConfig(name, binding, publish, subscribe, owned, config, encoding) ==
  [ logical_name  |-> name,
    local_binding |-> binding,
    publish       |-> publish,
    subscribe     |-> subscribe,
    locally_owned |-> owned,
    update_policy |-> config,
    encoding      |-> encoding ]

\* A Python instance before any constructor has stored a field in it.
BlankObject ==
  [ kind              |-> None,
    hla_create        |-> FALSE,
    instance_name     |-> None,
    fom_type_name     |-> None,
    lag_comp          |-> None,
    lag_comp_type     |-> None,
    ownership         |-> None,
    deleted           |-> None,
    conditional       |-> None,
    packing           |-> None,
    thla_object       |-> None,
    thread_IDs        |-> None,
    attributes        |-> << >>,
    trick_entity_sim_obj_name |-> None,
    parent_frame_name |-> None,
    is_root           |-> FALSE ]

AttributeNames(obj) == { obj.attributes[i].logical_name : i \in 1..Len(obj.attributes) }

(***************************************************************************)
(* TrickHLAObjectConfig.__init__ (describe_object of the specification):   *)
(* rejects a creating descriptor without an instance name, otherwise       *)
(* stores its eleven positional arguments.  Result: the exception raised   *)
(* ("None" when none) and the instance.                                    *)
(***************************************************************************)
TrickHLAObjectConfigInit(self, a) ==
  IF a[1] /\ a[2] = ""
  THEN [ raised |-> "ConfigurationError", obj |-> self ]
  ELSE [ raised |-> None,
         obj |-> [ self EXCEPT !.kind = "object",
                               !.hla_create = a[1],
                               !.instance_name = a[2],
                               !.fom_type_name = a[3],
                               !.lag_comp = a[4],
                               !.lag_comp_type = a[5],
                               !.ownership = a[6],
                               !.deleted = a[7],
                               !.conditional = a[8],
                               !.packing = a[9],
                               !.thla_object = a[10],
                               !.thread_IDs = a[11],
                               !.attributes = << >> ] ]

(***************************************************************************)
(* TrickHLAObjectConfig.add_attribute (add_attribute of the                *)
(* specification): appends, or fails on a name collision and leaves the    *)
(* list as it was.                                                         *)
(***************************************************************************)
AddAttributeResultAppends(obj, attribute) ==
  [ raised |-> None,
    obj |-> [ obj EXCEPT !.attributes = Append(@, attribute) ] ]

AddAttributeResult(obj, attribute) ==
  IF attribute.logical_name \in AttributeNames(obj)
  THEN [ raised |-> "DuplicateAttributeError", obj |-> obj ]
  ELSE [ raised |-> None,
         obj |-> [ obj EXCEPT !.attributes = Append(@, attribute) ] ]

(***************************************************************************)
(* SpaceFOMPhysicalEntityObject                                            *)
(***************************************************************************)
entity_FOM_name == "PhysicalEntity"

\* The argument of entity_S_define_instance.set_name in __init__.
SetNameArgKeepsName(create_entity_object, entity_instance_name) ==
  entity_instance_name

SetNameArg(create_entity_object, entity_instance_name) ==
  IF create_entity_object THEN entity_instance_name ELSE ""

\* The positional arguments of the base class constructor call.
BaseCtorArgsSwapped(a) ==
  << a.create_entity_object, entity_FOM_name, a.entity_instance_name,
     a.entity_lag_comp, a.entity_lag_comp_type, a.entity_ownership,
     a.entity_deleted, a.entity_conditional, a.entity_S_define_instance,
     a.entity_thla_manager_object, a.entity_thread_IDs >>

BaseCtorArgsHooksCrossed(a) ==
  << a.create_entity_object, a.entity_instance_name, entity_FOM_name,
     a.entity_conditional, a.entity_lag_comp_type, a.entity_deleted,
     a.entity_ownership, a.entity_lag_comp, a.entity_S_define_instance,
     a.entity_thla_manager_object, a.entity_thread_IDs >>

BaseCtorArgs(a) ==
  << a.create_entity_object, a.entity_instance_name, entity_FOM_name,
     a.entity_lag_comp, a.entity_lag_comp_type, a.entity_ownership,
     a.entity_deleted, a.entity_conditional, a.entity_S_define_instance,
     a.entity_thla_manager_object, a.entity_thread_IDs >>

EntityAttributeTableReordered ==
  << <<"name",                    ".pe_packing_data.name",         "ENCODING_UNICODE_STRING">>,
     <<"type",                    ".pe_packing_data.type",         "ENCODING_UNICODE_STRING">>,
     <<"status",                  ".pe_packing_data.status",       "ENCODING_UNICODE_STRING">>,
     <<"parent_reference_frame",  ".pe_packing_data.parent_frame", "ENCODING_UNICODE_STRING">>,
     <<"acceleration",            ".pe_packing_data.accel",        "ENCODING_LITTLE_ENDIAN">>,
     <<"state",                   ".stc_encoder.buffer",           "ENCODING_NONE">>,
     <<"rotational_acceleration", ".pe_packing_data.ang_accel",    "ENCODING_LITTLE_ENDIAN">>,
     <<"center_of_mass",          ".pe_packing_data.cm",           "ENCODING_LITTLE_ENDIAN">>,
     <<"body_wrt_structural",     ".quat_encoder.buffer",          "ENCODING_NONE">> >>

\* add_attributes: FOM attribute name, suffix of the trick data name, encoding.
EntityAttributeTableRepeated ==
  << <<"name",                    ".pe_packing_data.name",         "ENCODING_UNICODE_STRING">>,
     <<"type",                    ".pe_packing_data.type",         "ENCODING_UNICODE_STRING">>,
     <<"status",                  ".pe_packing_data.status",       "ENCODING_UNICODE_STRING">>,
     <<"parent_reference_frame",  ".pe_packing_data.parent_frame", "ENCODING_UNICODE_STRING">>,
     <<"state",                   ".stc_encoder.buffer",           "ENCODING_NONE">>,
     <<"acceleration",            ".pe_packing_data.accel",        "ENCODING_LITTLE_ENDIAN">>,
     <<"acceleration",            ".pe_packing_data.ang_accel",    "ENCODING_LITTLE_ENDIAN">>,
     <<"center_of_mass",          ".pe_packing_data.cm",           "ENCODING_LITTLE_ENDIAN">>,
     <<"body_wrt_structural",     ".quat_encoder.buffer",          "ENCODING_NONE">> >>

EntityAttributeTable ==
  << <<"name",                    ".pe_packing_data.name",         "ENCODING_UNICODE_STRING">>,
     <<"type",                    ".pe_packing_data.type",         "ENCODING_UNICODE_STRING">>,
     <<"status",                  ".pe_packing_data.status",       "ENCODING_UNICODE_STRING">>,
     <<"parent_reference_frame",  ".pe_packing_data.parent_frame", "ENCODING_UNICODE_STRING">>,
     <<"state",                   ".stc_encoder.buffer",           "ENCODING_NONE">>,
     <<"acceleration",            ".pe_packing_data.accel",        "ENCODING_LITTLE_ENDIAN">>,
     <<"rotational_acceleration", ".pe_packing_data.ang_accel",    "ENCODING_LITTLE_ENDIAN">>,
     <<"center_of_mass",          ".pe_packing_data.cm",           "ENCODING_LITTLE_ENDIAN">>,
     <<"body_wrt_structural",     ".quat_encoder.buffer",          "ENCODING_NONE">> >>

\* The publish and subscribe arguments add_attributes derives from hla_create.
EntityDirectionBoth(hla_create) == << hla_create, hla_create >>

EntityDirection(hla_create) == << hla_create, ~hla_create >>

EntityAttributeOwnsAlways(self, k) ==
  TrickHLAAttributeConfig( EntityAttributeTable[k][1],
                           self.trick_entity_sim_obj_name \o EntityAttributeTable[k][2],
                           EntityDirection(self.hla_create)[1],
                           EntityDirection(self.hla_create)[2],
                           TRUE,
                           ConfigPlus(CONFIG_INITIALIZE, CONFIG_CYCLIC),
                           EntityAttributeTable[k][3] )

\* The k-th attribute add_attributes builds for the instance self.
EntityAttribute(self, k) ==
  TrickHLAAttributeConfig( EntityAttributeTable[k][1],
                           self.trick_entity_sim_obj_name \o EntityAttributeTable[k][2],
                           EntityDirection(self.hla_create)[1],
                           EntityDirection(self.hla_create)[2],
                           self.hla_create,
                           ConfigPlus(CONFIG_INITIALIZE, CONFIG_CYCLIC),
                           EntityAttributeTable[k][3] )

EntityScriptNamesTwice ==
  << [ op |-> "save_sim_obj_name", ref |-> "self" ],
     [ op |-> "set_name", ref |-> "self" ],
     [ op |-> "base_init", ref |-> "self" ] >>
  \o [ k \in 1..Len(EntityAttributeTable) |->
         [ op |-> "add_entity_attribute", ref |-> "self", k |-> k ] ]
  \o << [ op |-> "set_name", ref |-> "self" ],
        [ op |-> "return", ref |-> "self" ] >>

\* The statements of SpaceFOMPhysicalEntityObject.__init__, in order.
EntityScript ==
  << [ op |-> "save_sim_obj_name", ref |-> "self" ],
     [ op |-> "set_name", ref |-> "self" ],
     [ op |-> "base_init", ref |-> "self" ] >>
  \o [ k \in 1..Len(EntityAttributeTable) |->
         [ op |-> "add_entity_attribute", ref |-> "self", k |-> k ] ]
  \o << [ op |-> "return", ref |-> "self" ] >>

(***************************************************************************)
(* SpaceFOMRefFrameObject.__init__ (describe_reference_frame of the        *)
(* specification): the contract of describe_object, plus the parent link.  *)
(* frames are the names of the reference-frame descriptors already built   *)
(* in this pass.  A frame without a parent is marked root.  The name given *)
(* by the caller is the name parent links resolve against.                 *)
(***************************************************************************)
SpaceFOMRefFrameObjectInitUnchecked(s, frames) ==
  [ raised |-> None,
    obj |-> [ BlankObject EXCEPT !.kind = "frame",
                                 !.hla_create = s.create,
                                 !.instance_name = s.name,
                                 !.fom_type_name = s.name,
                                 !.parent_frame_name = s.parent_name,
                                 !.is_root = (s.parent_name = None) ] ]

SpaceFOMRefFrameObjectInit(s, frames) ==
  IF s.create /\ s.name = ""
  THEN [ raised |-> "ConfigurationError", obj |-> BlankObject ]
  ELSE IF s.parent_name # None /\ s.parent_name \notin frames
  THEN [ raised |-> "DanglingParentError", obj |-> BlankObject ]
  ELSE [ raised |-> None,
         obj |-> [ BlankObject EXCEPT !.kind = "frame",
                                      !.hla_create = s.create,
                                      !.instance_name = s.name,
                                      !.fom_type_name = s.name,
                                      !.lag_comp = s.lag_comp,
                                      !.lag_comp_type = s.lag_comp_type,
                                      !.ownership = s.ownership,
                                      !.deleted = s.deleted,
                                      !.conditional = s.conditional,
                                      !.packing = s.packing_name,
                                      !.thread_IDs = s.thread_IDs,
                                      !.parent_frame_name = s.parent_name,
                                      !.is_root = (s.parent_name = None) ] ]

\* The name tag describe_object / describe_reference_frame leaves on the
\* backing instance.
NameTag(create, name) == IF create THEN name ELSE ""

\* register_with_federate: what the federate keeps of a descriptor handed to it.
ForwardDescriptor(descriptor) == descriptor

(***************************************************************************)
(* JEODRefFrameTreeObject.__init__                                         *)
(***************************************************************************)
\* A SpaceFOMRefFrameObject( ... ) call of the tree constructor.
RootFrameCall(ref, name, frame, packing_name) ==
  [ op |-> "new_ref_frame", ref |-> ref, create |-> args.create_frame_objects,
    name |-> name, frame |-> frame, packing_name |-> packing_name,
    parent_packing |-> None, parent_name |-> None,
    conditional |-> None, lag_comp |-> None,
    lag_comp_type |-> "LAG_COMPENSATION_NONE",
    ownership |-> None, deleted |-> None, thread_IDs |-> None ]

FrameCall(ref, name, frame, packing_name, parent_packing, parent_name, conditional, lag_comp, ownership, deleted) ==
  [ op |-> "new_ref_frame", ref |-> ref, create |-> args.create_frame_objects,
    name |-> name, frame |-> frame, packing_name |-> packing_name,
    parent_packing |-> parent_packing, parent_name |-> parent_name,
    conditional |-> conditional, lag_comp |-> lag_comp,
    lag_comp_type |-> args.lag_comp_type,
    ownership |-> ownership, deleted |-> deleted, thread_IDs |-> None ]

ssbary_call ==
  RootFrameCall("ssbary_frame_obj", "SolarSystemBarycentricInertial",
                "ssbary_frame_ptr", "solar_system_barycenter.frame_packing")
sun_call ==
  FrameCall("sun_frame_obj", "SunCentricInertial", "sun_frame_ptr",
            "sun_inertial.frame_packing",
            "solar_system_barycenter.frame_packing", "SolarSystemBarycentricInertial",
            "sun_inertial.conditional", "sun_inertial.lag_compensation",
            "sun_inertial.ownership_handler", "sun_inertial.deleted_callback")
embary_call ==
  FrameCall("embary_frame_obj", "EarthMoonBarycentricInertial", "embary_frame_ptr",
            "earth_moon_barycenter.frame_packing",
            "solar_system_barycenter.frame_packing", "SolarSystemBarycentricInertial",
            "earth_moon_barycenter.conditional", "earth_moon_barycenter.lag_compensation",
            "earth_moon_barycenter.ownership_handler", "earth_moon_barycenter.deleted_callback")
earth_call ==
  FrameCall("earth_frame_obj", "EarthMJ2000Eq", "earth_frame_ptr",
            "earth_centered_inertial.frame_packing",
            "earth_moon_barycenter.frame_packing", "EarthMoonBarycentricInertial",
            "earth_centered_inertial.conditional", "earth_centered_inertial.lag_compensation",
            "earth_centered_inertial.ownership_handler", "earth_centered_inertial.deleted_callback")
moon_call ==
  FrameCall("moon_frame_obj", "MoonCentricInertial", "moon_frame_ptr",
            "moon_centered_inertial.frame_packing",
            "earth_moon_barycenter.frame_packing", "EarthMoonBarycentricInertial",
            "moon_centered_inertial.conditional", "moon_centered_inertial.lag_compensation",
            "moon_centered_inertial.ownership_handler", "moon_centered_inertial.deleted_callback")
mars_call_no_parent ==
  RootFrameCall("mars_frame_obj", "MarsCentricInertial", "mars_frame_ptr",
                "mars_centered_inertial.frame_packing")
mars_call ==
  FrameCall("mars_frame_obj", "MarsCentricInertial", "mars_frame_ptr",
            "mars_centered_inertial.frame_packing",
            "solar_system_barycenter.frame_packing", "SolarSystemBarycentricInertial",
            "mars_centered_inertial.conditional", "mars_centered_inertial.lag_compensation",
            "mars_centered_inertial.ownership_handler", "mars_centered_inertial.deleted_callback")
earth_pfix_call ==
  FrameCall("earth_pfix_frame_obj", "EarthCentricFixed", "earth_pfix_frame_ptr",
            "earth_centered_fixed.frame_packing",
            "earth_centered_inertial.frame_packing", "EarthMJ2000Eq",
            "earth_centered_fixed.conditional", "earth_centered_fixed.lag_compensation",
            "earth_centered_fixed.ownership_handler", "earth_centered_fixed.deleted_callback")
moon_pfix_call_crossed ==
  FrameCall("moon_pfix_frame_obj", "MoonCentricFixed", "moon_pfix_frame_ptr",
            "moon_centered_fixed.frame_packing",
            "mars_centered_inertial.frame_packing", "MoonCentricInertial",
            "moon_centered_fixed.conditional", "moon_centered_fixed.lag_compensation",
            "moon_centered_inertial.ownership_handler", "moon_centered_fixed.deleted_callback")
moon_pfix_call ==
  FrameCall("moon_pfix_frame_obj", "MoonCentricFixed", "moon_pfix_frame_ptr",
            "moon_centered_fixed.frame_packing",
            "moon_centered_inertial.frame_packing", "MoonCentricInertial",
            "moon_centered_fixed.conditional", "moon_centered_fixed.lag_compensation",
            "moon_centered_fixed.ownership_handler", "moon_centered_fixed.deleted_callback")
mars_pfix_call ==
  FrameCall("mars_pfix_frame_obj", "MarsCentricFixed", "mars_pfix_frame_ptr",
            "mars_centered_fixed.frame_packing",
            "mars_centered_inertial.frame_packing", "MarsCentricInertial",
            "mars_centered_fixed.conditional", "mars_centered_fixed.lag_compensation",
            "mars_centered_fixed.ownership_handler", "mars_centered_fixed.deleted_callback")

SetRootFrame(ref) == [ op |-> "set_root_frame", ref |-> ref ]
AddFedObject(ref) == [ op |-> "add_fed_object", ref |-> ref ]

\* The SpaceFOMRefFrameObject calls of the tree constructor, in source order.
JEODFrameCallsOrphanMars ==
  << ssbary_call, sun_call, embary_call, earth_call, moon_call,
     mars_call_no_parent, earth_pfix_call, moon_pfix_call, mars_pfix_call >>

JEODFrameCalls ==
  << ssbary_call, sun_call, embary_call, earth_call, moon_call,
     mars_call, earth_pfix_call, moon_pfix_call, mars_pfix_call >>

\* The statements of JEODRefFrameTreeObject.__init__, in order.
JEODScriptEarthFirst ==
  << [ op |-> "locals" ],
     ssbary_call,     SetRootFrame("ssbary_frame_obj"),
     sun_call,        AddFedObject("sun_frame_obj"),
     earth_call,      AddFedObject("earth_frame_obj"),
     embary_call,     AddFedObject("embary_frame_obj"),
     moon_call,       AddFedObject("moon_frame_obj"),
     mars_call,       AddFedObject("mars_frame_obj"),
     earth_pfix_call, AddFedObject("earth_pfix_frame_obj"),
     moon_pfix_call,  AddFedObject("moon_pfix_frame_obj"),
     mars_pfix_call,  AddFedObject("mars_pfix_frame_obj") >>

JEODScript ==
  << [ op |-> "locals" ],
     JEODFrameCalls[1], SetRootFrame("ssbary_frame_obj"),
     JEODFrameCalls[2], AddFedObject("sun_frame_obj"),
     JEODFrameCalls[3], AddFedObject("embary_frame_obj"),
     JEODFrameCalls[4], AddFedObject("earth_frame_obj"),
     JEODFrameCalls[5], AddFedObject("moon_frame_obj"),
     JEODFrameCalls[6], AddFedObject("mars_frame_obj"),
     JEODFrameCalls[7], AddFedObject("earth_pfix_frame_obj"),
     JEODFrameCalls[8], AddFedObject("moon_pfix_frame_obj"),
     JEODFrameCalls[9], AddFedObject("mars_pfix_frame_obj") >>

JEODFramePtrs == { JEODFrameCalls[i].frame : i \in 1..Len(JEODFrameCalls) }

(***************************************************************************)
(* SIM_wheelbot/RUN_wb1/input.py                                           *)
(***************************************************************************)
\* SpaceFOMFederateConfig( ..., federation name, federate name, True )
NewFederate(federation, name) ==
  [ op |-> "new_federate", federation |-> federation, name |-> name ]
SetRole(role, value) == [ op |-> "set_role", role |-> role, value |-> value ]
AddKnownFederate(required, name) ==
  [ op |-> "add_known_federate", required |-> required, name |-> name ]
AddSimObject(sim_object) == [ op |-> "add_sim_object", sim_object |-> sim_object ]

\* att0 = TrickHLAAttributeConfig('state','veh.vehicle.position',True,False,True,...)
att0 ==
  TrickHLAAttributeConfig("state", "veh.vehicle.position", TRUE, FALSE, TRUE,
                          CONFIG_CYCLIC, "ENCODING_LITTLE_ENDIAN")

\* obj = TrickHLAObjectConfig(True,'Wheelbot_hla_entity','PhysicalEntity',
\*                            None,None,None,None,False): eight positional
\* arguments, the last three parameters left at their default.
WheelbotObjectArgs ==
  << TRUE, "Wheelbot_hla_entity", "PhysicalEntity", None, None, None, None,
     "False", None, None, None >>

WheelbotScriptHandOffFirst ==
  << NewFederate("Wheelbot_Test", "Wheelbot-1"),
     SetRole("master", FALSE), SetRole("pacing", FALSE), SetRole("RRFP", FALSE),
     AddKnownFederate(TRUE, "Wheelbot-1"), AddKnownFederate(TRUE, "MPR"),
     AddKnownFederate(FALSE, "Wheelbot-2"),
     [ op |-> "new_object", ref |-> "obj", a |-> WheelbotObjectArgs ],
     AddFedObject("obj"),
     [ op |-> "add_attribute", ref |-> "obj", attribute |-> att0 ],
     AddSimObject("THLA"), AddSimObject("THLA_INIT"), AddSimObject("root_ref_frame"),
     [ op |-> "initialize" ] >>

WheelbotScript ==
  << NewFederate("Wheelbot_Test", "Wheelbot-1"),
     SetRole("master", FALSE), SetRole("pacing", FALSE), SetRole("RRFP", FALSE),
     AddKnownFederate(TRUE, "Wheelbot-1"), AddKnownFederate(TRUE, "MPR"),
     AddKnownFederate(FALSE, "Wheelbot-2"),
     [ op |-> "new_object", ref |-> "obj", a |-> WheelbotObjectArgs ],
     [ op |-> "add_attribute", ref |-> "obj", attribute |-> att0 ],
     AddFedObject("obj"),
     AddSimObject("THLA"), AddSimObject("THLA_INIT"), AddSimObject("root_ref_frame"),
     [ op |-> "initialize" ] >>

(***************************************************************************)
(* SIM_Roles_Test_threads/RUN_Master/input.py                              *)
(***************************************************************************)
\* SpaceFOMRefFrameObject( create, name, packing instance, packing name,
\*                         frame_thread_IDs = ... ): no parent, no hooks.
InputFrameCall(ref, create, name, frame, packing_name, thread_IDs) ==
  [ op |-> "new_ref_frame", ref |-> ref, create |-> create,
    name |-> name, frame |-> frame, packing_name |-> packing_name,
    parent_packing |-> None, parent_name |-> None,
    conditional |-> None, lag_comp |-> None,
    lag_comp_type |-> "LAG_COMPENSATION_NONE",
    ownership |-> None, deleted |-> None, thread_IDs |-> thread_IDs ]

MasterScriptInitializeFirst ==
  << NewFederate("SpaceFOM_Roles_Test", "Master"),
     SetRole("master", TRUE), SetRole("pacing", FALSE), SetRole("RRFP", FALSE),
     AddKnownFederate(TRUE, "Master"), AddKnownFederate(TRUE, "Pacing"),
     AddKnownFederate(TRUE, "RRFP"),
     InputFrameCall("root_frame", fed.is_RRFP, "RootFrame",
                    "root_ref_frame.frame_packing", "root_ref_frame.frame_packing", "1"),
     [ op |-> "initialize" ],
     SetRootFrame("root_frame"),
     InputFrameCall("frame_A", FALSE, "FrameA",
                    "ref_frame_A.frame_packing", "ref_frame_A.frame_packing", "2"),
     AddSimObject("THLA"), AddSimObject("THLA_INIT"),
     AddSimObject("root_ref_frame"), AddSimObject("ref_frame_A") >>

MasterScript ==
  << NewFederate("SpaceFOM_Roles_Test", "Master"),
     SetRole("master", TRUE), SetRole("pacing", FALSE), SetRole("RRFP", FALSE),
     AddKnownFederate(TRUE, "Master"), AddKnownFederate(TRUE, "Pacing"),
     AddKnownFederate(TRUE, "RRFP"),
     InputFrameCall("root_frame", fed.is_RRFP, "RootFrame",
                    "root_ref_frame.frame_packing", "root_ref_frame.frame_packing", "1"),
     SetRootFrame("root_frame"),
     InputFrameCall("frame_A", FALSE, "FrameA",
                    "ref_frame_A.frame_packing", "ref_frame_A.frame_packing", "2"),
     AddSimObject("THLA"), AddSimObject("THLA_INIT"),
     AddSimObject("root_ref_frame"), AddSimObject("ref_frame_A"),
     [ op |-> "initialize" ] >>

(***************************************************************************)
(* Command line and stop time of the input files                           *)
(***************************************************************************)
\* Times are floats; a float is written here by its canonical text.
MaxArgs == 3
ArgTokens == {"-stop", "-nostop", "-h", "-verbose", "off", "0", "5"}

\* float( str( argv[index] ) ): the texts that parse, and their value.
FloatLiterals == ("0" :> "0.0") @@ ("5" :> "5.0")
ParsesAsFloat(text) == text \in DOMAIN FloatLiterals
Float(text) == FloatLiterals[text]

\* argv[0] = S_main*.exe, argv[1] = RUN/input.py file, then the options.
CommandLines ==
  { <<"S_main.exe", "RUN/input.py">> \o tail :
      tail \in UNION { [1..n -> ArgTokens] : n \in 0..MaxArgs } }

\* Python truth value of run_duration in `if run_duration:`.
Truthy(value) == value # None /\ value # "0.0"

\* The default stop time printed by print_usage_message.
UsageDefaultStop == "10.0"
\* run_duration = 70.0 (wheelbot) and run_duration = 10.0 (Master).
WheelbotRunDuration == "70.0"
MasterRunDuration == "10.0"

NoSim ==
  [ print_usage |-> FALSE, run_duration |-> None, verbose |-> TRUE,
    terminate_time |-> None ]

\* print_usage = False; run_duration = <default>; verbose = True
Globals(run_duration) ==
  [ NoSim EXCEPT !.run_duration = run_duration ]

\* parse_command_line: the while loop from position index (0-based) on; g
\* holds the globals and what the loop raised.
RECURSIVE ParseFrom(_, _, _)
ParseFrom(argv, index, g) ==
  IF g.raised # None \/ ~(index < Len(argv)) THEN g
  ELSE LET a == argv[index + 1]
           more == index + 1 < Len(argv)
           b == argv[index + 2]
       IN CASE a = "-stop" ->
                 IF more
                 THEN IF ParsesAsFloat(b)
                      THEN ParseFrom(argv, index + 2, [ g EXCEPT !.run_duration = Float(b) ])
                      ELSE [ g EXCEPT !.raised = "ValueError" ]
                 ELSE ParseFrom(argv, index + 2, [ g EXCEPT !.print_usage = TRUE ])
            [] a = "-nostop" ->
                 ParseFrom(argv, index + 1, [ g EXCEPT !.run_duration = None ])
            [] a \in {"-h", "-help"} ->
                 ParseFrom(argv, index + 1, [ g EXCEPT !.print_usage = TRUE ])
            [] a = "-verbose" ->
                 IF more
                 THEN CASE b = "on"  -> ParseFrom(argv, index + 2, [ g EXCEPT !.verbose = TRUE ])
                        [] b = "off" -> ParseFrom(argv, index + 2, [ g EXCEPT !.verbose = FALSE ])
                        [] OTHER     -> ParseFrom(argv, index + 2, [ g EXCEPT !.print_usage = TRUE ])
                 ELSE ParseFrom(argv, index + 2, [ g EXCEPT !.print_usage = TRUE ])
            [] OTHER ->
                 ParseFrom(argv, index + 1, [ g EXCEPT !.print_usage = TRUE ])

parse_command_line(argv, globals) ==
  ParseFrom(argv, 2, [ print_usage |-> globals.print_usage,
                       run_duration |-> globals.run_duration,
                       verbose |-> globals.verbose, raised |-> None ])

\* The statements of an input file around its HLA section.
WheelbotPrologue ==
  << [ op |-> "globals", run_duration |-> WheelbotRunDuration ],
     [ op |-> "parse_command_line" ], [ op |-> "check_usage" ] >>
MasterPrologue ==
  << [ op |-> "globals", run_duration |-> MasterRunDuration ],
     [ op |-> "parse_command_line" ], [ op |-> "check_usage" ] >>
InputEpilogue == << [ op |-> "set_terminate_time" ] >>

(***************************************************************************)
(* The pass being run.                                                     *)
(***************************************************************************)
RepositoryPasses == {"entity", "jeod", "wheelbot", "master"}

\* Two SpaceFOMPhysicalEntityObject constructions in one process, one after
\* the other: the statements of __init__ for the first, then for the second.
ConstructionOf(ref) ==
  [ i \in 1..Len(EntityScript) |-> [ EntityScript[i] EXCEPT !.ref = ref ] ]
PairScript == ConstructionOf("first") \o ConstructionOf("second")

Script ==
  CASE pass = "entity"   -> EntityScript
    [] pass = "jeod"     -> JEODScript
    [] pass = "wheelbot" -> WheelbotPrologue \o WheelbotScript \o InputEpilogue
    [] pass = "master"   -> MasterPrologue \o MasterScript \o InputEpilogue
    [] pass = "pair"     -> PairScript
    [] OTHER -> << >>

Running == err = None /\ ip <= Len(Script)
Completed == err = None /\ ip = Len(Script) + 1
Stmt == Script[ip]

\* The arguments of the constructor call being executed.
CtorArgs == IF pass = "pair" THEN args[Stmt.ref] ELSE args

\* self.<attribute> = value binds the attribute on the instance self alone.
AttributeOfClass(self) == DOMAIN objs

AttributeOfSelf(self) == {self}

\* The federate configuration object (SpaceFOMFederateConfig).
NoFederate ==
  [ exists |-> FALSE, name |-> None, federation |-> None,
    is_master |-> FALSE, is_pacing |-> FALSE, is_RRFP |-> FALSE,
    known_federates |-> << >>, sim_objects |-> << >>,
    root |-> None, objects |-> << >>, initialized |-> FALSE ]

NewFederateConfig(federation, name) ==
  [ NoFederate EXCEPT !.exists = TRUE, !.name = name, !.federation = federation ]

\* Names of the reference-frame descriptors built so far in this pass.
BuiltFrameNames ==
  { objs[r].fom_type_name : r \in { q \in built : objs[q].kind = "frame" } }

HandedRefs == { fed.objects[i].ref : i \in 1..Len(fed.objects) }

NoObjects == [ r \in {} |-> BlankObject ]
NoSimObjects == [ s \in {} |-> "" ]

EntityArgs ==
  [ create_entity_object : BOOLEAN,
    entity_instance_name : InstanceNames,
    entity_S_define_instance : {"entity_packing"},
    entity_S_define_instance_name : SDefineNames,
    entity_conditional : HookValues("conditional"),
    entity_lag_comp : HookValues("lag_compensation"),
    entity_lag_comp_type : LagCompTypes,
    entity_ownership : HookValues("ownership_handler"),
    entity_deleted : HookValues("deleted_callback"),
    entity_thla_manager_object : {None},
    entity_thread_IDs : {None},
    prior_name : PriorNames ]

\* The attributes of JEODRefFrameTreeObject as the class body sets them;
\* during a JEOD pass sim holds the attributes of the object under construction.
JEODClassAttributes ==
  [ federate |-> None, ssbary_frame |-> None, sun_frame |-> None,
    embary_frame |-> None, earth_frame |-> None, moon_frame |-> None,
    mars_frame |-> None, earth_pfix_frame |-> None, moon_pfix_frame |-> None,
    mars_pfix_frame |-> None ]

JEODArgs ==
  [ create_frame_objects : BOOLEAN,
    lag_comp_type : LagCompTypes,
    prior_name : PriorNames ]

InputArgs == [ prior_name : PriorNames, argv : CommandLines ]

\* The formatting utility is not running during a configuration pass.
FormatIdle == fs = << >> /\ cwd = None /\ phase = "idle" /\ out = << >>

InitEntity ==
  /\ pass = "entity"
  /\ args \in EntityArgs
  /\ simName = [ s \in {"entity_packing"} |-> args.prior_name ]
  /\ objs = [ r \in {"self"} |-> BlankObject ]
  /\ fed = NoFederate
  /\ sim = NoSim

InitJEOD ==
  /\ pass = "jeod"
  /\ args \in JEODArgs
  /\ simName = [ s \in JEODFramePtrs |-> args.prior_name ]
  /\ objs = NoObjects
  /\ fed = NewFederateConfig("federation", "federate_instance")
  /\ sim = JEODClassAttributes

InitWheelbot ==
  /\ pass = "wheelbot"
  /\ args \in [ prior_name : {""}, argv : CommandLines ]
  /\ simName = NoSimObjects
  /\ objs = NoObjects
  /\ fed = NoFederate
  /\ sim = NoSim

InitMaster ==
  /\ pass = "master"
  /\ args \in InputArgs
  /\ simName = [ s \in {"root_ref_frame.frame_packing", "ref_frame_A.frame_packing"}
                   |-> args.prior_name ]
  /\ objs = NoObjects
  /\ fed = NoFederate
  /\ sim = NoSim

\* Two constructions in one process, each with its own arguments.
PairCtorArgs ==
  { a \in EntityArgs :
      /\ a.entity_conditional = None /\ a.entity_lag_comp = None
      /\ a.entity_ownership = None /\ a.entity_deleted = None
      /\ a.entity_lag_comp_type = "LAG_COMPENSATION_NONE" /\ a.prior_name = "" }

PackingOf(a) == a.entity_S_define_instance_name \o ".pe_packing"

InitPair ==
  /\ pass = "pair"
  /\ \E a \in PairCtorArgs, b \in PairCtorArgs :
       args = [ first |-> [ a EXCEPT !.entity_S_define_instance = PackingOf(a) ],
                second |-> [ b EXCEPT !.entity_S_define_instance = PackingOf(b) ] ]
  /\ simName = [ s \in { args.first.entity_S_define_instance,
                         args.second.entity_S_define_instance } |-> "" ]
  /\ objs = [ r \in {"first", "second"} |-> BlankObject ]
  /\ fed = NoFederate
  /\ sim = NoSim
  /\ ip = 1 /\ err = None /\ built = {} /\ writes = << >>
  /\ FormatIdle

Init ==
  /\ ip = 1
  /\ err = None
  /\ built = {}
  /\ writes = << >>
  /\ FormatIdle
  /\ \/ InitEntity
     \/ InitJEOD
     \/ InitWheelbot
     \/ InitMaster

(***************************************************************************)
(* Statements of SpaceFOMPhysicalEntityObject.__init__                     *)
(***************************************************************************)
\* self.trick_entity_sim_obj_name = str( entity_S_define_instance_name )
SaveSimObjName ==
  /\ Running /\ Stmt.op = "save_sim_obj_name"
  /\ objs' = [ r \in DOMAIN objs |->
                 IF r \in AttributeOfSelf(Stmt.ref)
                 THEN [ objs[r] EXCEPT !.trick_entity_sim_obj_name =
                                          CtorArgs.entity_S_define_instance_name ]
                 ELSE objs[r] ]
  /\ ip' = ip + 1
  /\ UNCHANGED <<fmtVars, writes, sim, pass, args, simName, built, fed, err>>

\* if ( create_entity_object ) : set_name( entity_instance_name ) else: set_name( '' )
SetName ==
  /\ Running /\ Stmt.op = "set_name"
  /\ simName' = [ simName EXCEPT ![CtorArgs.entity_S_define_instance] =
                    SetNameArg(CtorArgs.create_entity_object, CtorArgs.entity_instance_name) ]
  /\ writes' = Append(writes, [ instance |-> CtorArgs.entity_S_define_instance,
                                 name |-> simName'[CtorArgs.entity_S_define_instance] ])
  /\ ip' = ip + 1
  /\ UNCHANGED <<fmtVars, sim, pass, args, objs, built, fed, err>>

\* TrickHLAObjectConfig.__init__( self, ... )
BaseInit ==
  /\ Running /\ Stmt.op = "base_init"
  /\ LET r == TrickHLAObjectConfigInit(objs[Stmt.ref], BaseCtorArgs(CtorArgs))
     IN /\ objs' = [ objs EXCEPT ![Stmt.ref] = r.obj ]
        /\ err' = r.raised
        /\ ip' = IF r.raised = None THEN ip + 1 ELSE ip
  /\ UNCHANGED <<fmtVars, writes, sim, pass, args, simName, built, fed>>

\* One attribute of add_attributes: build it and self.add_attribute( attribute ).
AddEntityAttribute ==
  /\ Running /\ Stmt.op = "add_entity_attribute"
  /\ LET r == AddAttributeResult(objs[Stmt.ref], EntityAttribute(objs[Stmt.ref], Stmt.k))
     IN /\ objs' = [ objs EXCEPT ![Stmt.ref] = r.obj ]
        /\ err' = r.raised
        /\ ip' = IF r.raised = None THEN ip + 1 ELSE ip
  /\ UNCHANGED <<fmtVars, writes, sim, pass, args, simName, built, fed>>

\* return: the constructor call yields the instance.
Return ==
  /\ Running /\ Stmt.op = "return"
  /\ built' = built \cup {Stmt.ref}
  /\ ip' = ip + 1
  /\ UNCHANGED <<fmtVars, writes, sim, pass, args, simName, objs, fed, err>>

(***************************************************************************)
(* Statements of JEODRefFrameTreeObject.__init__ and of the input files    *)
(***************************************************************************)
\* federate = federate_instance and the frame shortcuts: the targets are
\* plain names, bound in the scope of __init__; no attribute of self is set.
Locals ==
  /\ Running /\ Stmt.op = "locals"
  /\ ip' = ip + 1
  /\ UNCHANGED <<fmtVars, writes, sim, pass, args, simName, objs, built, fed, err>>

\* <ref> = SpaceFOMRefFrameObject( ... )
NewRefFrame ==
  /\ Running /\ Stmt.op = "new_ref_frame"
  /\ LET r == SpaceFOMRefFrameObjectInit(Stmt, BuiltFrameNames)
     IN /\ err' = r.raised
        /\ IF r.raised = None
           THEN /\ objs' = (Stmt.ref :> r.obj) @@ objs
                /\ built' = built \cup {Stmt.ref}
                /\ simName' = [ simName EXCEPT ![Stmt.frame] = NameTag(Stmt.create, Stmt.name) ]
                /\ writes' = Append(writes, [ instance |-> Stmt.frame,
                                               name |-> NameTag(Stmt.create, Stmt.name) ])
                /\ ip' = ip + 1
           ELSE UNCHANGED <<objs, built, simName, writes, ip>>
  /\ UNCHANGED <<fmtVars, sim, pass, args, fed>>

\* <ref> = TrickHLAObjectConfig( ... )
NewObject ==
  /\ Running /\ Stmt.op = "new_object"
  /\ LET r == TrickHLAObjectConfigInit(BlankObject, Stmt.a)
     IN /\ err' = r.raised
        /\ IF r.raised = None
           THEN /\ objs' = (Stmt.ref :> r.obj) @@ objs
                /\ built' = built \cup {Stmt.ref}
                /\ ip' = ip + 1
           ELSE UNCHANGED <<objs, built, ip>>
  /\ UNCHANGED <<fmtVars, writes, sim, pass, args, simName, fed>>

\* <ref>.add_attribute( attribute )
AddAttribute ==
  /\ Running /\ Stmt.op = "add_attribute"
  /\ LET r == AddAttributeResult(objs[Stmt.ref], Stmt.attribute)
     IN /\ objs' = [ objs EXCEPT ![Stmt.ref] = r.obj ]
        /\ err' = r.raised
        /\ ip' = IF r.raised = None THEN ip + 1 ELSE ip
  /\ UNCHANGED <<fmtVars, writes, sim, pass, args, simName, built, fed>>

\* federate = SpaceFOMFederateConfig( ... )
NewFederateStmt ==
  /\ Running /\ Stmt.op = "new_federate"
  /\ fed' = NewFederateConfig(Stmt.federation, Stmt.name)
  /\ ip' = ip + 1
  /\ UNCHANGED <<fmtVars, writes, sim, pass, args, simName, objs, built, err>>

\* federate.set_master_role / set_pacing_role / set_RRFP_role
SetRoleStmt ==
  /\ Running /\ Stmt.op = "set_role"
  /\ fed' = CASE Stmt.role = "master" -> [ fed EXCEPT !.is_master = Stmt.value ]
              [] Stmt.role = "pacing" -> [ fed EXCEPT !.is_pacing = Stmt.value ]
              [] Stmt.role = "RRFP"   -> [ fed EXCEPT !.is_RRFP = Stmt.value ]
  /\ ip' = ip + 1
  /\ UNCHANGED <<fmtVars, writes, sim, pass, args, simName, objs, built, err>>

\* federate.add_known_fededrate( required, name )
AddKnownFederateStmt ==
  /\ Running /\ Stmt.op = "add_known_federate"
  /\ fed' = [ fed EXCEPT !.known_federates = Append(@, <<Stmt.required, Stmt.name>>) ]
  /\ ip' = ip + 1
  /\ UNCHANGED <<fmtVars, writes, sim, pass, args, simName, objs, built, err>>

\* federate.add_sim_object( sim_object )
AddSimObjectStmt ==
  /\ Running /\ Stmt.op = "add_sim_object"
  /\ fed' = [ fed EXCEPT !.sim_objects = Append(@, Stmt.sim_object) ]
  /\ ip' = ip + 1
  /\ UNCHANGED <<fmtVars, writes, sim, pass, args, simName, objs, built, err>>

\* What a hand-off appends to the federate's object list: the reference
\* given, the descriptor as it was at the call, and the descriptor kept.
HandOff(ref) ==
  [ ref |-> ref, supplied |-> objs[ref], received |-> ForwardDescriptor(objs[ref]) ]

\* federate.set_root_frame( root_frame ): sets the root frame and adds it
\* to the federate.
SetRootFrameStmt ==
  /\ Running /\ Stmt.op = "set_root_frame"
  /\ fed' = [ fed EXCEPT !.root = Stmt.ref, !.objects = Append(@, HandOff(Stmt.ref)) ]
  /\ ip' = ip + 1
  /\ UNCHANGED <<fmtVars, writes, sim, pass, args, simName, objs, built, err>>

\* federate.add_fed_object( descriptor )
AddFedObjectStmt ==
  /\ Running /\ Stmt.op = "add_fed_object"
  /\ fed' = [ fed EXCEPT !.objects = Append(@, HandOff(Stmt.ref)) ]
  /\ ip' = ip + 1
  /\ UNCHANGED <<fmtVars, writes, sim, pass, args, simName, objs, built, err>>

\* federate.initialize()
InitializeStmt ==
  /\ Running /\ Stmt.op = "initialize"
  /\ fed' = [ fed EXCEPT !.initialized = TRUE ]
  /\ ip' = ip + 1
  /\ UNCHANGED <<fmtVars, writes, sim, pass, args, simName, objs, built, err>>

\* print_usage = False; run_duration = <default>; verbose = True
GlobalsStmt ==
  /\ Running /\ Stmt.op = "globals"
  /\ sim' = Globals(Stmt.run_duration)
  /\ ip' = ip + 1
  /\ UNCHANGED <<fmtVars, writes, pass, args, simName, objs, built, fed, err>>

\* parse_command_line()
ParseCommandLineStmt ==
  /\ Running /\ Stmt.op = "parse_command_line"
  /\ LET g == parse_command_line(args.argv, sim)
     IN /\ sim' = [ sim EXCEPT !.print_usage = g.print_usage,
                               !.run_duration = g.run_duration,
                               !.verbose = g.verbose ]
        /\ err' = g.raised
        /\ ip' = IF g.raised = None THEN ip + 1 ELSE ip
  /\ UNCHANGED <<fmtVars, writes, pass, args, simName, objs, built, fed>>

\* if (print_usage == True) : print_usage_message(), which ends the run
\* through trick.exec_terminate_with_return.
CheckUsageStmt ==
  /\ Running /\ Stmt.op = "check_usage"
  /\ IF sim.print_usage
     THEN err' = "exec_terminate_with_return" /\ ip' = ip
     ELSE err' = err /\ ip' = ip + 1
  /\ UNCHANGED <<fmtVars, writes, sim, pass, args, simName, objs, built, fed>>

\* if run_duration: trick.sim_services.exec_set_terminate_time( run_duration )
SetTerminateTimeStmt ==
  /\ Running /\ Stmt.op = "set_terminate_time"
  /\ sim' = IF Truthy(sim.run_duration)
            THEN [ sim EXCEPT !.terminate_time = sim.run_duration ]
            ELSE sim
  /\ ip' = ip + 1
  /\ UNCHANGED <<fmtVars, writes, pass, args, simName, objs, built, fed, err>>

Next ==
  \/ SaveSimObjName
  \/ SetName
  \/ BaseInit
  \/ AddEntityAttribute
  \/ Return
  \/ Locals
  \/ NewRefFrame
  \/ NewObject
  \/ AddAttribute
  \/ NewFederateStmt
  \/ SetRoleStmt
  \/ AddKnownFederateStmt
  \/ AddSimObjectStmt
  \/ SetRootFrameStmt
  \/ AddFedObjectStmt
  \/ InitializeStmt
  \/ GlobalsStmt
  \/ ParseCommandLineStmt
  \/ CheckUsageStmt
  \/ SetTerminateTimeStmt

Spec == Init /\ [][Next]_vars

\* The statements a pair of constructions can run.
NextPair ==
  \/ SaveSimObjName
  \/ SetName
  \/ BaseInit
  \/ AddEntityAttribute
  \/ Return

SpecPair == InitPair /\ [][NextPair]_vars

(***************************************************************************)
(* The registry operations under an arbitrary caller: any sequence of at   *)
(* most MaxCalls calls of describe_object, describe_reference_frame,       *)
(* add_attribute and register_with_federate on at most MaxDescriptors      *)
(* descriptors.  The caller catches what a call raises and goes on: err is *)
(* the outcome of the last call and args the last call itself.             *)
(***************************************************************************)
MaxCalls == 3
MaxDescriptors == 2

ClientInstanceNames == {"", "Wheelbot_hla_entity"}
ClientFrameNames == {"SolarSystemBarycentricInertial", "EarthMoonBarycentricInertial"}
ClientAttributeNames == {"state", "name"}

NextRef == Cardinality(DOMAIN objs) + 1
ClientCanCall == pass = "client" /\ ip <= MaxCalls

InitRegistry ==
  /\ pass = "client"
  /\ ip = 1
  /\ err = None
  /\ built = {}
  /\ args = [ call |-> None ]
  /\ simName = [ s \in {"client_packing"} |-> "" ]
  /\ objs = NoObjects
  /\ fed = NewFederateConfig("federation", "federate_handle")
  /\ writes = << >>
  /\ sim = NoSim
  /\ FormatIdle

\* describe_object( 'PhysicalEntity', instance_name, create_flag, no hooks )
ClientDescribeObject ==
  /\ ClientCanCall /\ NextRef <= MaxDescriptors
  /\ \E create \in BOOLEAN, name \in ClientInstanceNames :
       LET a == << create, name, entity_FOM_name, None, None, None, None, None,
                   None, None, None >>
           r == TrickHLAObjectConfigInit(BlankObject, a)
       IN /\ args' = [ call |-> "describe_object", ref |-> NextRef,
                       create |-> create, name |-> name ]
          /\ err' = r.raised
          /\ IF r.raised = None
             THEN /\ objs' = (NextRef :> r.obj) @@ objs
                  /\ built' = built \cup {NextRef}
             ELSE UNCHANGED <<objs, built>>
  /\ ip' = ip + 1
  /\ UNCHANGED <<fmtVars, writes, sim, pass, simName, fed>>

\* describe_reference_frame( name, create_flag, parent or none, no hooks )
ClientDescribeReferenceFrame ==
  /\ ClientCanCall /\ NextRef <= MaxDescriptors
  /\ \E create \in BOOLEAN, name \in ClientFrameNames,
        parent_name \in ClientFrameNames \cup {None} :
       LET s == InputFrameCall(NextRef, create, name, "client_packing",
                               "client_packing", None)
           c == [ s EXCEPT !.parent_name = parent_name ]
           r == SpaceFOMRefFrameObjectInit(c, BuiltFrameNames)
       IN /\ args' = [ call |-> "describe_reference_frame", ref |-> NextRef,
                       create |-> create, name |-> name, parent_name |-> parent_name ]
          /\ err' = r.raised
          /\ IF r.raised = None
             THEN /\ objs' = (NextRef :> r.obj) @@ objs
                  /\ built' = built \cup {NextRef}
                  /\ simName' = [ simName EXCEPT ![c.frame] = NameTag(create, name) ]
                  /\ writes' = Append(writes, [ instance |-> c.frame,
                                                 name |-> NameTag(create, name) ])
             ELSE UNCHANGED <<objs, built, simName, writes>>
  /\ ip' = ip + 1
  /\ UNCHANGED <<fmtVars, sim, pass, fed>>

\* add_attribute( descriptor, logical_name, binding, publish, subscribe, ... )
ClientAddAttribute ==
  /\ ClientCanCall
  /\ \E ref \in built, name \in ClientAttributeNames, publish \in BOOLEAN :
       LET attribute == TrickHLAAttributeConfig(name, "veh.vehicle.position",
                                                publish, ~publish, publish,
                                                CONFIG_CYCLIC, "ENCODING_LITTLE_ENDIAN")
           r == AddAttributeResult(objs[ref], attribute)
       IN /\ args' = [ call |-> "add_attribute", ref |-> ref, attribute |-> attribute ]
          /\ err' = r.raised
          /\ objs' = [ objs EXCEPT ![ref] = r.obj ]
  /\ ip' = ip + 1
  /\ UNCHANGED <<fmtVars, writes, sim, pass, simName, built, fed>>

\* register_with_federate( federate_handle, descriptor )
ClientRegister ==
  /\ ClientCanCall
  /\ \E ref \in built :
       /\ args' = [ call |-> "register_with_federate", ref |-> ref ]
       /\ fed' = [ fed EXCEPT !.objects = Append(@, HandOff(ref)) ]
  /\ err' = None
  /\ ip' = ip + 1
  /\ UNCHANGED <<fmtVars, writes, sim, pass, simName, objs, built>>

NextRegistry ==
  \/ ClientDescribeObject
  \/ ClientDescribeReferenceFrame
  \/ ClientAddAttribute
  \/ ClientRegister

SpecRegistry == InitRegistry /\ [][NextRegistry]_vars

(***************************************************************************)
(* scripts/format_code.py: find_clang_format                               *)
(*                                                                         *)
(* TrickHLAMessage is repository code outside the sources at hand: failure *)
(* prints its message and ends the process, error, warning and status only *)
(* print.  A call is described by what it returned, the failure message    *)
(* that ended the process, or the exception it raised.                     *)
(***************************************************************************)
PathJoin(a, b) == a \o "/" \o b

LlvmDir == "/opt/llvm/bin"
CellarDir == "/usr/local/Cellar/llvm"
LlvmVersions == {"16.0.6", "17.0.1"}
\* Python's < on the version names.
StrLess(a, b) == <<a, b>> \in { <<"16.0.6", "17.0.1">> }

\* What the search can see: the LLVM_HOME variable and which files exist.
CellarListings ==
  { l \in UNION { [1..n -> [ version : LlvmVersions, has_bin : BOOLEAN ]] : n \in 0..2 } :
      \A i, j \in 1..Len(l) : i # j => l[i].version # l[j].version }

ToolEnvs ==
  [ LLVM_HOME : {None, LlvmDir, "/opt/gone"},
    llvm_dir_bin : BOOLEAN, usr_bin : BOOLEAN, usr_local_bin : BOOLEAN,
    cellar : [ exists : {TRUE}, versions : CellarListings ]
               \cup [ exists : {FALSE}, versions : {<< >>} ] ]

\* os.path.isfile and os.path.isdir on the paths the search looks at.
ToolIsFile(env, path) ==
  \/ path = PathJoin(LlvmDir, "clang-format") /\ env.llvm_dir_bin
  \/ path = "/usr/bin/clang-format" /\ env.usr_bin
  \/ path = "/usr/local/bin/clang-format" /\ env.usr_local_bin
  \/ \E i \in 1..Len(env.cellar.versions) :
       /\ env.cellar.versions[i].has_bin
       /\ path = PathJoin(PathJoin(PathJoin(CellarDir, env.cellar.versions[i].version),
                                   "bin"), "clang-format")
ToolIsDir(env, path) ==
  \/ path = LlvmDir
  \/ path = CellarDir /\ env.cellar.exists

\* llvm_version = llvm_versions[0]; for version in llvm_versions: ...
RECURSIVE LatestVersion(_, _, _)
LatestVersion(versions, i, llvm_version) ==
  IF i > Len(versions) THEN llvm_version
  ELSE LatestVersion(versions, i + 1,
                     IF StrLess(llvm_version, versions[i].version)
                     THEN versions[i].version ELSE llvm_version)

Returned(value) == [ returned |-> value, failure |-> None, raised |-> None ]
Failure(message) == [ returned |-> None, failure |-> message, raised |-> None ]
Raised(exception) == [ returned |-> None, failure |-> None, raised |-> exception ]

\* The hunt of find_clang_format: the value of command_path after it, the
\* failure that ended the process, or the exception raised.
CommandPath(llvm_bin, verbose, env) ==
  IF llvm_bin # None THEN Returned(llvm_bin \o "/clang-format")
  ELSE IF env.LLVM_HOME # None
  THEN IF ToolIsDir(env, env.LLVM_HOME)
       THEN Returned(None)  \* clang_format_cmd is set if verbose; command_path is not
       ELSE Failure("LLVM_HOME not found: " \o env.LLVM_HOME)
  ELSE IF ToolIsFile(env, "/usr/bin/clang-format") THEN Returned("/usr/bin/clang-format")
  ELSE IF ToolIsFile(env, "/usr/local/bin/clang-format")
  THEN Returned("/usr/local/bin/clang-format")
  ELSE IF ToolIsDir(env, CellarDir)
  THEN IF env.cellar.versions = << >> THEN Raised("IndexError")
       ELSE Returned(PathJoin(PathJoin(PathJoin(CellarDir,
                       LatestVersion(env.cellar.versions, 1, env.cellar.versions[1].version)),
                       "bin"), "clang-format"))
  ELSE Returned(None)

find_clang_format(llvm_bin, verbose, env) ==
  LET hunt == CommandPath(llvm_bin, verbose, env)
  IN IF hunt.failure # None \/ hunt.raised # None THEN hunt
     ELSE IF hunt.returned = None
     THEN Failure("Could not find the clang-format command!")
     ELSE IF ~ToolIsFile(env, hunt.returned)
     THEN Failure("Could not find the clang-format command!: " \o hunt.returned)
     ELSE Returned(hunt.returned)

\* find_clang_format called once, on any --llvm_bin, verbosity and machine.
FindArgs ==
  [ llvm_bin : {None, LlvmDir, "/opt/none"}, verbose : BOOLEAN, env : ToolEnvs ]

InitFind ==
  /\ pass = "find_clang_format"
  /\ args \in FindArgs
  /\ phase = "call"
  /\ out = << >>
  /\ fs = << >> /\ cwd = None
  /\ ip = 1 /\ err = None /\ built = {} /\ writes = << >>
  /\ simName = NoSimObjects /\ objs = NoObjects /\ fed = NoFederate /\ sim = NoSim

FindCall ==
  /\ pass = "find_clang_format" /\ phase = "call"
  /\ out' = find_clang_format(args.llvm_bin, args.verbose, args.env)
  /\ phase' = "called"
  /\ UNCHANGED <<pass, ip, args, simName, objs, built, fed, err, writes, sim, fs, cwd>>

NextFind == FindCall

SpecFind == InitFind /\ [][NextFind]_vars

(***************************************************************************)
(* scripts/format_code.py: the TrickHLA tree                               *)
(*                                                                         *)
(* The tree under the TrickHLA home holds the top-level directories, the   *)
(* source paths with their entries, and below them the directories that    *)
(* hold source files.  Each such directory is described by its             *)
(* '.clang-format' entry, its 'formatted' directory and the source files   *)
(* already rewritten in place.                                             *)
(***************************************************************************)
HomeDir == "/thla"
TopDirs == {"include", "source", "models", "scripts"}

\* trickhla_src_paths
trickhla_src_paths(trickhla_home) ==
  << PathJoin(trickhla_home, "include"), PathJoin(trickhla_home, "source"),
     PathJoin(trickhla_home, "models/simconfig"), PathJoin(trickhla_home, "models/sine") >>

\* os.listdir( '.' ) in a source path, and which entries are files.
SrcEntries ==
  (PathJoin(HomeDir, "include") :> <<"README.md", "TrickHLA">>)
  @@ (PathJoin(HomeDir, "source") :> <<"TrickHLA">>)
  @@ (PathJoin(HomeDir, "models/simconfig") :> <<"src">>)
  @@ (PathJoin(HomeDir, "models/sine") :> <<"src">>)
EntryIsFile(dir_entry) == dir_entry = "README.md"

\* The directories holding source files; models/Wheelbot is the model the
\* wheelbot simulation is built from.
LeafDirs ==
  { PathJoin(HomeDir, "include/TrickHLA"), PathJoin(HomeDir, "source/TrickHLA"),
    PathJoin(HomeDir, "models/simconfig/src"), PathJoin(HomeDir, "models/sine/src"),
    PathJoin(HomeDir, "models/Wheelbot/src") }

\* The files of such a directory: two regular source files, a source file
\* that is a symbolic link, and a file that is no source file.
RegularFiles == {"A.cpp", "A.hh", "notes.txt"}
LinkFiles == {"B.hh"}
SourceExtension == {"A.cpp", "A.hh", "B.hh"}

FormattedStates ==
  { [ exists |-> FALSE, files |-> {}, subdirs |-> {} ],
    [ exists |-> TRUE, files |-> {}, subdirs |-> {} ],
    [ exists |-> TRUE, files |-> {"A.cpp"}, subdirs |-> {} ],
    [ exists |-> TRUE, files |-> {"old/A.cpp"}, subdirs |-> {"old"} ] }

LeafStates ==
  [ clang : {"none", "file", "link"}, formatted : FormattedStates, rewritten : {{}} ]

PlainLeaf ==
  [ clang |-> "none", formatted |-> [ exists |-> FALSE, files |-> {}, subdirs |-> {} ],
    rewritten |-> {} ]

\* What a call of one of the functions did: the directory as it left it,
\* the working directory, the exception raised, whether os.symlink was
\* called, the formatter commands run, the error printed and the value
\* returned.
Outcome(leaf, dir, raised, symlink, commands) ==
  [ leaf |-> leaf, cwd |-> dir, raised |-> raised, symlink |-> symlink,
    commands |-> commands ]

(***************************************************************************)
(* link_clang_format, run in the directory leaf                            *)
(***************************************************************************)
link_clang_format_untested(leaf, test_only) ==
  IF leaf.clang = "link" THEN [ leaf |-> leaf, symlink |-> FALSE, raised |-> None ]
  ELSE IF leaf.clang = "none"
       THEN [ leaf |-> [ leaf EXCEPT !.clang = "link" ], symlink |-> TRUE, raised |-> None ]
       ELSE [ leaf |-> leaf, symlink |-> TRUE, raised |-> "FileExistsError" ]

link_clang_format(leaf, test_only) ==
  IF leaf.clang = "link" THEN [ leaf |-> leaf, symlink |-> FALSE, raised |-> None ]
  ELSE IF test_only THEN [ leaf |-> leaf, symlink |-> FALSE, raised |-> None ]
  ELSE \* os.symlink( thla_clang_format, '.clang-format' )
       IF leaf.clang = "none"
       THEN [ leaf |-> [ leaf EXCEPT !.clang = "link" ], symlink |-> TRUE, raised |-> None ]
       ELSE [ leaf |-> leaf, symlink |-> TRUE, raised |-> "FileExistsError" ]

\* if not in_place: if not os.path.isdir( 'formatted' ): ... os.mkdir( 'formatted' )
MakeFormatted(leaf, in_place, test_only) ==
  IF ~in_place /\ ~leaf.formatted.exists /\ ~test_only
  THEN [ leaf EXCEPT !.formatted.exists = TRUE ]
  ELSE leaf

\* os.system( command ): clang-format -i rewrites the files; the redirected
\* form writes formatted/<file>, which the shell can create only inside an
\* existing directory.
OsSystemBothPlaces(leaf, files, in_place) ==
  [ leaf EXCEPT !.rewritten = @ \cup files,
                !.formatted.files = IF leaf.formatted.exists THEN @ \cup files ELSE @ ]

OsSystem(leaf, files, in_place) ==
  IF in_place THEN [ leaf EXCEPT !.rewritten = @ \cup files ]
  ELSE IF leaf.formatted.exists THEN [ leaf EXCEPT !.formatted.files = @ \cup files ]
  ELSE leaf

Commands(dir, files, in_place) ==
  { [ dir |-> dir, file |-> f, in_place |-> in_place ] : f \in files }

\* The part of format_directory and of format_file after the os.chdir into
\* dir: link the format specification, make 'formatted', run the formatter
\* on files, and go back to original_dir.
FormatInStaysInside(dir, leaf, files, in_place, test_only, original_dir) ==
  LET linked == link_clang_format(leaf, test_only)
      made == MakeFormatted(linked.leaf, in_place, test_only)
  IN IF linked.raised # None
     THEN Outcome(linked.leaf, dir, linked.raised, linked.symlink, {})
     ELSE IF test_only
     THEN Outcome(made, dir, None, linked.symlink, {})
     ELSE Outcome(OsSystem(made, files, in_place), original_dir, None, linked.symlink,
                  Commands(dir, files, in_place))

FormatIn(dir, leaf, files, in_place, test_only, original_dir) ==
  LET linked == link_clang_format(leaf, test_only)
      made == MakeFormatted(linked.leaf, in_place, test_only)
  IN IF linked.raised # None
     THEN Outcome(linked.leaf, dir, linked.raised, linked.symlink, {})
     ELSE IF test_only
     THEN Outcome(made, original_dir, None, linked.symlink, {})
     ELSE Outcome(OsSystem(made, files, in_place), original_dir, None, linked.symlink,
                  Commands(dir, files, in_place))

\* format_directory: the regular files with a source extension.
format_directory(dir, leaf, in_place, test_only, original_dir) ==
  FormatIn(dir, leaf, (RegularFiles \ LinkFiles) \cap SourceExtension,
           in_place, test_only, original_dir)

\* cleanup_directory
cleanup_directory(dir, leaf, test_only, original_dir) ==
  LET unlinked == IF leaf.clang = "link" /\ ~test_only
                  THEN [ leaf EXCEPT !.clang = "none" ] ELSE leaf
      \* os.walk: os.remove of every file, at any depth
      emptied == [ unlinked EXCEPT !.formatted.files = {} ]
  IN IF ~leaf.formatted.exists \/ test_only
     THEN Outcome(unlinked, original_dir, None, FALSE, {})
     ELSE IF leaf.formatted.subdirs # {}
     THEN \* os.removedirs( 'formatted' ) on a directory that is not empty
          Outcome(emptied, dir, "OSError", FALSE, {})
     ELSE Outcome([ emptied EXCEPT !.formatted.exists = FALSE ], original_dir, None,
                  FALSE, {})

\* The --file targets, relative to the TrickHLA home: a regular file, a
\* symbolic link to a file, and a path where nothing is.
FileTargets ==
  { "source/TrickHLA/A.cpp", "source/TrickHLA/B.hh", "source/TrickHLA/Gone.cpp" }
Dirname(file_path) == "source/TrickHLA"
Basename(file_path) ==
  CASE file_path = "source/TrickHLA/A.cpp" -> "A.cpp"
    [] file_path = "source/TrickHLA/B.hh" -> "B.hh"
    [] file_path = "source/TrickHLA/Gone.cpp" -> "Gone.cpp"
IsFile(file_path) == Basename(file_path) \in RegularFiles \cup LinkFiles
IsLink(file_path) == Basename(file_path) \in LinkFiles

\* format_file: what it printed with TrickHLAMessage.error, else None, and
\* the outcome of the formatting.
FormatFileError(file_path) ==
  IF IsFile(file_path)
  THEN IF IsLink(file_path) THEN "File is a link: " \o file_path ELSE None
  ELSE "File does not exist: " \o file_path

format_file(file_path, leaf, in_place, test_only, original_dir) ==
  IF FormatFileError(file_path) # None
  THEN Outcome(leaf, original_dir, None, FALSE, {})
  ELSE FormatIn(PathJoin(original_dir, Dirname(file_path)), leaf, {Basename(file_path)},
                in_place, test_only, original_dir)

(***************************************************************************)
(* scripts/format_code.py: main                                            *)
(***************************************************************************)
\* The command line options.
FormatFlags ==
  [ clean : BOOLEAN, in_place : BOOLEAN, test : BOOLEAN, verbose : BOOLEAN,
    file : {None} \cup FileTargets ]

\* The machine main runs on: --thla_home and --llvm_bin, the environment,
\* the top-level directories present under the home, the formatter
\* binaries installed, and the state every source directory starts in.
MainToolEnvs ==
  { e \in ToolEnvs : /\ ~e.cellar.exists /\ ~e.usr_local_bin /\ e.llvm_dir_bin
                     /\ e.LLVM_HOME \in {None, LlvmDir}
                     /\ ~(e.usr_bin /\ e.LLVM_HOME # None) }

Machines ==
  [ thla_home : {None, HomeDir},
    TRICKHLA_HOME : {None, HomeDir, "/nowhere"},
    TRICK_HLA_HOME : {None, HomeDir},
    top : {TopDirs} \cup { TopDirs \ {d} : d \in TopDirs },
    llvm_bin : {None, LlvmDir},
    env : MainToolEnvs,
    leaf0 : {PlainLeaf} ]

UsualMachines ==
  [ thla_home : {None}, TRICKHLA_HOME : {HomeDir}, TRICK_HLA_HOME : {None},
    top : {TopDirs}, llvm_bin : {None},
    env : { e \in MainToolEnvs : e.usr_bin }, leaf0 : LeafStates ]

\* Every machine with the flags of a whole-tree run or of one --file run,
\* and the usual machine with every flag combination and every state of
\* the source directories.
FormatArgs ==
  { f @@ m : f \in { g \in FormatFlags : g.file \in {None, "source/TrickHLA/A.cpp"} },
             m \in Machines }
  \cup { f @@ m : f \in FormatFlags, m \in UsualMachines }

StartDir == "/work"

NoOut ==
  [ failure |-> None, raised |-> None, exited |-> FALSE, success |-> None,
    errors |-> {}, visited |-> {}, symlinks |-> {}, commands |-> {}, pending |-> << >>,
    clang_format_cmd |-> None, check_in_place |-> None, calls |-> {} ]

\* trickhla_home as main resolves it from the environment.
trickhla_home(a) ==
  IF a.TRICKHLA_HOME # None THEN a.TRICKHLA_HOME ELSE a.TRICK_HLA_HOME

\* Lines 43 to 98 of main: the checks made before anything is formatted.
MainChecksResult(a) ==
  IF a.thla_home # None THEN Raised("NameError")  \* trickhla_home = ars.thla_home
  ELSE IF trickhla_home(a) = None THEN Failure("TRICKHLA_HOME not set!")
  ELSE IF trickhla_home(a) # HomeDir THEN Failure("TrickHLA Home directory not found!")
  ELSE IF "include" \notin a.top THEN Failure("Could not find the 'include' directory!")
  ELSE IF "source" \notin a.top THEN Failure("Could not find the 'source' directory!")
  ELSE IF "models" \notin a.top THEN Failure("Could not find the 'models' directory!")
  ELSE IF "scripts" \notin a.top THEN Failure("Could not find the 'scripts' directory!")
  ELSE LET found == find_clang_format(a.llvm_bin, a.verbose, a.env)
       IN IF found.failure # None \/ found.raised # None THEN found
          ELSE IF a.in_place /\ a.clean
          THEN Failure("The 'in_place' and 'clean' options are incompatible!")
          ELSE IF a.file # None /\ a.clean
          THEN Failure("The 'file' and 'clean' options are incompatible!")
          ELSE found

InitFormat ==
  /\ pass = "format"
  /\ args \in FormatArgs
  /\ fs = [ d \in LeafDirs |-> args.leaf0 ]
  /\ cwd = StartDir
  /\ phase = "start"
  /\ out = NoOut
  /\ ip = 1 /\ err = None /\ built = {} /\ writes = << >>
  /\ simName = NoSimObjects /\ objs = NoObjects /\ fed = NoFederate /\ sim = NoSim

cfgVars == <<pass, args, simName, objs, built, fed, err, writes, sim>>

MainChecks ==
  /\ pass = "format" /\ phase = "start"
  /\ LET r == MainChecksResult(args)
         ok == r.failure = None /\ r.raised = None
     IN /\ out' = [ out EXCEPT !.failure = r.failure, !.raised = r.raised,
                               !.clang_format_cmd = r.returned ]
        /\ phase' = IF ~ok THEN "ended"
                    ELSE IF args.in_place /\ ~args.test THEN "confirm" ELSE "work"
        \* os.chdir( trickhla_home ) comes before the directory checks
        /\ cwd' = IF args.thla_home = None /\ trickhla_home(args) = HomeDir
                  THEN HomeDir ELSE cwd
  /\ UNCHANGED <<cfgVars, ip, fs>>

\* What the user may type at the prompt.
Answers == {"y", "n", "Y", "yes", ""}

\* if check_in_place == 'y' :
ProceedsOnAnyYes(check_in_place) == check_in_place \in {"y", "Y", "yes"}
Proceeds(check_in_place) == check_in_place = "y"

\* check_in_place = raw_input( ... ): proceed on 'y', else sys.exit()
Confirm ==
  /\ pass = "format" /\ phase = "confirm"
  /\ \E check_in_place \in Answers :
       IF Proceeds(check_in_place)
       THEN phase' = "work" /\ out' = [ out EXCEPT !.check_in_place = check_in_place ]
       ELSE phase' = "ended" /\ out' = [ out EXCEPT !.check_in_place = check_in_place,
                                                      !.exited = TRUE ]
  /\ UNCHANGED <<cfgVars, ip, fs, cwd>>

\* An interpreter without raw_input (Python 3) raises NameError at the prompt.
ConfirmUndefined ==
  /\ pass = "format" /\ phase = "confirm"
  /\ phase' = "ended" /\ out' = [ out EXCEPT !.raised = "NameError" ]
  /\ UNCHANGED <<cfgVars, ip, fs, cwd>>

\* What a call leaves in the state of the run.
AfterCall(dir, r, next_phase) ==
  /\ fs' = [ fs EXCEPT ![dir] = r.leaf ]
  /\ cwd' = r.cwd
  /\ phase' = IF r.raised # None THEN "ended" ELSE next_phase

Logged(r, dir) ==
  [ out EXCEPT !.raised = r.raised,
               !.visited = @ \cup {dir},
               !.calls = @ \cup {[ dir |-> dir, entry |-> cwd, exit |-> r.cwd,
                                   raised |-> r.raised ]},
               !.symlinks = IF r.symlink THEN @ \cup {dir} ELSE @,
               !.commands = @ \cup r.commands ]

\* if args.file : format_file( args.file, ... ); the value returned is dropped
FormatFile ==
  /\ pass = "format" /\ phase = "work" /\ args.file # None
  /\ LET dir == PathJoin(cwd, Dirname(args.file))
         r == format_file(args.file, fs[dir], args.in_place, args.test, cwd)
         error == FormatFileError(args.file)
     IN /\ AfterCall(dir, r, "finish")
        /\ out' = [ Logged(r, dir) EXCEPT !.errors = IF error # None THEN @ \cup {error}
                                                     ELSE @ ]
  /\ UNCHANGED <<cfgVars, ip>>

\* for src_path in trickhla_src_paths: os.chdir( src_path ); os.listdir( '.' )
EnterSrcPath ==
  /\ pass = "format" /\ phase = "work" /\ args.file = None
  /\ out.pending = << >> /\ ip <= Len(trickhla_src_paths(HomeDir))
  /\ cwd' = trickhla_src_paths(trickhla_home(args))[ip]
  /\ out' = [ out EXCEPT !.pending = SrcEntries[cwd'] ]
  /\ ip' = ip + 1
  /\ UNCHANGED <<cfgVars, fs, phase>>

\* for dir_entry in dir_list: skip a file, else clean up or format it
VisitEntry ==
  /\ pass = "format" /\ phase = "work" /\ args.file = None
  /\ out.pending # << >>
  /\ LET dir_entry == Head(out.pending)
         dir == PathJoin(cwd, dir_entry)
         r == IF args.clean
              THEN cleanup_directory(dir, fs[dir], args.test, cwd)
              ELSE format_directory(dir, fs[dir], args.in_place, args.test, cwd)
     IN IF EntryIsFile(dir_entry)
        THEN /\ out' = [ out EXCEPT !.pending = Tail(@) ]
             /\ UNCHANGED <<fs, cwd, phase>>
        ELSE /\ AfterCall(dir, r, "work")
             /\ out' = [ Logged(r, dir) EXCEPT !.pending = Tail(@) ]
  /\ UNCHANGED <<cfgVars, ip>>

\* TrickHLAMessage.success( 'Finished ...' ) at the end of main
Finish ==
  /\ pass = "format"
  /\ \/ phase = "finish"
     \/ /\ phase = "work" /\ args.file = None
        /\ out.pending = << >> /\ ip > Len(trickhla_src_paths(HomeDir))
  /\ out' = [ out EXCEPT !.success =
                IF args.clean THEN "Finished cleaning up TrickHLA formatting artifacts."
                ELSE "Finished formatting TrickHLA source code." ]
  /\ phase' = "ended"
  /\ UNCHANGED <<cfgVars, ip, fs, cwd>>

NextFormat ==
  \/ MainChecks
  \/ Confirm
  \/ ConfirmUndefined
  \/ FormatFile
  \/ EnterSrcPath
  \/ VisitEntry
  \/ Finish

SpecFormat == InitFormat /\ [][NextFormat]_vars

(***************************************************************************)
(* Properties                                                              *)
(***************************************************************************)
\* The statement op of the running pass has been executed.
Executed(op) == \E i \in 1..Len(Script) : i < ip /\ Script[i].op = op

Attributes(r) == objs[r].attributes
LogicalNames(r) == [ i \in 1..Len(Attributes(r)) |-> Attributes(r)[i].logical_name ]

\* C1: once SpaceFOMPhysicalEntityObject.__init__ has called set_name, the
\* backing instance's name is the supplied instance name when the create
\* flag is true and the empty string when it is false, for every instance
\* name and every name the backing instance held before.
C1_BackingNameFollowsCreateFlag ==
  (pass = "entity" /\ Executed("set_name")) =>
    simName[args.entity_S_define_instance] =
      IF args.create_entity_object THEN args.entity_instance_name ELSE ""

C1_Witness ==
  /\ pass = "entity" /\ Completed /\ "self" \in built
  /\ ~args.create_entity_object
  /\ args.entity_instance_name = "Lander"
  /\ args.prior_name = "Stale"
  /\ simName["entity_packing"] = ""

\* C2: a construction with the create flag true and an empty instance name
\* never gets past the base constructor, fails with ConfigurationError and
\* with nothing else, and yields no descriptor; no descriptor that was
\* produced has the create flag true and an empty instance name.
C2_EmptyNameRejected ==
  /\ (pass = "entity" /\ args.create_entity_object /\ args.entity_instance_name = "") =>
       /\ ~Executed("base_init")
       /\ "self" \notin built
       /\ err \in {None, "ConfigurationError"}
  /\ \A r \in built : ~(objs[r].hla_create /\ objs[r].instance_name = "")

C2_Witness ==
  /\ pass = "entity"
  /\ args.create_entity_object /\ args.entity_instance_name = ""
  /\ err = "ConfigurationError"
  /\ built = {}

\* C3: an add_attribute call whose logical name is already in the
\* descriptor's attribute list raises DuplicateAttributeError and leaves
\* every descriptor, the attribute list included, as it was before the call.
C3_DuplicateAttributeRejected ==
  [][ ( /\ pass = "client" /\ ip' = ip + 1
        /\ args'.call = "add_attribute"
        /\ args'.attribute.logical_name \in AttributeNames(objs[args'.ref]) )
      => ( err' = "DuplicateAttributeError" /\ objs' = objs ) ]_vars

C3_Witness ==
  /\ pass = "client"
  /\ args.call = "add_attribute"
  /\ err = "DuplicateAttributeError"
  /\ Len(Attributes(args.ref)) = 1
  /\ Attributes(args.ref)[1].logical_name = args.attribute.logical_name

\* C4: in every state of a configuration pass the logical names of one
\* object's attribute list are pairwise distinct; add_attributes is never
\* stopped by a repeated name, and the entity it returns carries the nine
\* names name, type, status, parent_reference_frame, state, acceleration,
\* rotational_acceleration, center_of_mass, body_wrt_structural.
C4_LogicalNamesUnique ==
  /\ \A r \in DOMAIN objs :
       \A i, j \in 1..Len(Attributes(r)) :
         i # j => Attributes(r)[i].logical_name # Attributes(r)[j].logical_name
  /\ pass = "entity" => err # "DuplicateAttributeError"
  /\ (pass = "entity" /\ "self" \in built) =>
       LogicalNames("self") =
         << "name", "type", "status", "parent_reference_frame", "state",
            "acceleration", "rotational_acceleration", "center_of_mass",
            "body_wrt_structural" >>

C4_Witness ==
  /\ pass = "entity" /\ "self" \in built
  /\ Cardinality(AttributeNames(objs["self"])) = 9

\* C5: every attribute descriptor of a repository pass has exactly one of
\* publish and subscribe true; each attribute of add_attributes has publish
\* equal to the create flag and subscribe equal to its negation; the
\* wheelbot attribute 'state' has publish true and subscribe false.
C5_ExactlyOneDirection ==
  /\ \A r \in DOMAIN objs : \A i \in 1..Len(Attributes(r)) :
       Attributes(r)[i].publish # Attributes(r)[i].subscribe
  /\ pass = "entity" =>
       \A i \in 1..Len(Attributes("self")) :
         /\ Attributes("self")[i].publish = args.create_entity_object
         /\ Attributes("self")[i].subscribe = ~args.create_entity_object
  /\ (pass = "wheelbot" /\ Executed("add_attribute")) =>
       /\ LogicalNames("obj") = << "state" >>
       /\ Attributes("obj")[1].publish
       /\ ~Attributes("obj")[1].subscribe

C5_Witness ==
  /\ pass = "entity" /\ "self" \in built
  /\ ~args.create_entity_object
  /\ Len(Attributes("self")) = 9
  /\ \A i \in 1..9 : Attributes("self")[i].subscribe /\ ~Attributes("self")[i].publish

\* Reference-frame descriptors built so far, and the parent link between them.
FrameRefs == { r \in built : objs[r].kind = "frame" }
ParentRefs(r) ==
  { q \in FrameRefs : q # r /\ objs[q].fom_type_name = objs[r].parent_frame_name }
RECURSIVE ReachesRoot(_, _)
ReachesRoot(r, steps) ==
  IF objs[r].parent_frame_name = None THEN TRUE
  ELSE IF steps = 0 \/ ParentRefs(r) = {} THEN FALSE
  ELSE ReachesRoot(CHOOSE q \in ParentRefs(r) : TRUE, steps - 1)

\* C6: the reference-frame descriptors assembled by JEODRefFrameTreeObject
\* form a tree: SolarSystemBarycentricInertial is the one frame without a
\* parent and the only frame set as root, every other frame's parent name is
\* the name of exactly one other frame, every frame reaches the root along
\* parent names, and the finished pass holds nine frames.
C6_FramesFormTree ==
  pass = "jeod" =>
    /\ \A r \in FrameRefs :
         (objs[r].parent_frame_name = None) =
           (objs[r].fom_type_name = "SolarSystemBarycentricInertial")
    /\ Cardinality({ r \in FrameRefs : objs[r].parent_frame_name = None }) <= 1
    /\ fed.root # None =>
         /\ fed.root \in FrameRefs
         /\ objs[fed.root].parent_frame_name = None
    /\ \A r \in FrameRefs :
         /\ objs[r].parent_frame_name # None => Cardinality(ParentRefs(r)) = 1
         /\ ReachesRoot(r, Cardinality(FrameRefs))
    /\ ~Running => ( Cardinality(FrameRefs) = 9 /\ fed.root # None )

C6_Witness ==
  /\ pass = "jeod" /\ Completed
  /\ Cardinality(FrameRefs) = 9
  /\ objs[fed.root].fom_type_name = "SolarSystemBarycentricInertial"
  /\ objs["earth_pfix_frame_obj"].parent_frame_name = "EarthMJ2000Eq"

\* C7: a describe_reference_frame call whose parent name is given and is
\* not the name of a reference-frame descriptor already built in the pass
\* raises DanglingParentError and builds nothing.
C7_DanglingParentRejected ==
  [][ ( /\ pass = "client" /\ ip' = ip + 1
        /\ args'.call = "describe_reference_frame"
        /\ args'.parent_name # None
        /\ args'.parent_name \notin BuiltFrameNames )
      => ( err' = "DanglingParentError" /\ objs' = objs /\ built' = built ) ]_vars

C7_Witness ==
  /\ pass = "client"
  /\ args.call = "describe_reference_frame"
  /\ args.name = "EarthMoonBarycentricInertial"
  /\ args.parent_name = "SolarSystemBarycentricInertial"
  /\ err = "DanglingParentError"
  /\ FrameRefs = {}

\* Position of reference r in the federate's object list (0: not handed).
HandedAt(r) ==
  IF r \in HandedRefs
  THEN CHOOSE i \in 1..Len(fed.objects) : fed.objects[i].ref = r
  ELSE 0

\* C8: in JEODRefFrameTreeObject.__init__ no frame construction is refused,
\* every non-root frame is constructed only after the frame named as its
\* parent was handed to the federate, and is handed to the federate after
\* it; the finished pass has handed over all nine frames.
C8_ParentBeforeChild ==
  pass = "jeod" =>
    /\ err = None
    /\ \A r \in FrameRefs :
         objs[r].parent_frame_name # None =>
           \E q \in ParentRefs(r) :
             /\ HandedAt(q) > 0
             /\ HandedAt(r) > 0 => HandedAt(q) < HandedAt(r)
    /\ Completed => HandedRefs = FrameRefs /\ Len(fed.objects) = 9

C8_Witness ==
  /\ pass = "jeod"
  /\ HandedAt("embary_frame_obj") > 0
  /\ HandedAt("embary_frame_obj") < HandedAt("earth_frame_obj")
  /\ HandedAt("earth_frame_obj") < HandedAt("earth_pfix_frame_obj")

C10_CompleteBeforeHandOff ==
  [][ /\ \A r \in HandedRefs : objs'[r] = objs[r]
      /\ fed.initialized =>
           /\ fed'.objects = fed.objects
           /\ fed'.root = fed.root
           /\ objs' = objs ]_vars

C10_Witness ==
  /\ pass = "master" /\ Completed
  /\ fed.initialized
  /\ fed.root = "root_frame"
  /\ HandedRefs = {"root_frame"}
  /\ "frame_A" \in built

\* C11: once SpaceFOMPhysicalEntityObject.__init__ has run the base
\* constructor, the descriptor holds in its conditional, lag compensation,
\* lag compensation type, ownership handler and deleted callback slots
\* exactly the value given to the constructor for the hook of that kind,
\* and a hook that was not given is absent in its slot.
C11_HooksForwardedInOwnSlot ==
  (pass = "entity" /\ Executed("base_init")) =>
    /\ objs["self"].conditional = args.entity_conditional
    /\ objs["self"].lag_comp = args.entity_lag_comp
    /\ objs["self"].lag_comp_type = args.entity_lag_comp_type
    /\ objs["self"].ownership = args.entity_ownership
    /\ objs["self"].deleted = args.entity_deleted

C11_Witness ==
  /\ pass = "entity" /\ Completed /\ "self" \in built
  /\ args.entity_conditional = "conditional"
  /\ args.entity_lag_comp = None
  /\ args.entity_lag_comp_type = "LAG_COMPENSATION_SEND_SIDE"
  /\ args.entity_ownership = "ownership_handler"
  /\ args.entity_deleted = None
  /\ objs["self"].conditional = "conditional"
  /\ objs["self"].lag_comp = None
  /\ objs["self"].ownership = "ownership_handler"
  /\ objs["self"].deleted = None

\* C12: a construction of a SpaceFOMPhysicalEntityObject calls set_name
\* exactly once, on the backing instance it was given; besides that name
\* and the new descriptor it writes nothing: no federate, no other
\* descriptor, no other simulation instance, no input-file global.
C12_OnlyBackingNameWritten ==
  (pass = "entity") =>
    /\ Len(writes) = (IF Executed("set_name") THEN 1 ELSE 0)
    /\ \A i \in 1..Len(writes) :
         /\ writes[i].instance = args.entity_S_define_instance
         /\ writes[i].name = simName[args.entity_S_define_instance]
    /\ ~Executed("set_name") => simName[args.entity_S_define_instance] = args.prior_name
    /\ DOMAIN simName = {args.entity_S_define_instance}
    /\ DOMAIN objs = {"self"}
    /\ fed = NoFederate
    /\ sim = NoSim

C12_Witness ==
  /\ pass = "entity" /\ Completed /\ "self" \in built
  /\ args.create_entity_object /\ args.entity_instance_name = "Rover"
  /\ args.prior_name = "Stale"
  /\ Len(objs["self"].attributes) = 9
  /\ writes = << [ instance |-> "entity_packing", name |-> "Rover" ] >>

\* Neither -stop nor -nostop is on the command line.
NoStopOption(argv) == \A i \in 1..Len(argv) : argv[i] \notin {"-stop", "-nostop"}

\* C20: an input file that ran to its end on a command line with neither
\* -stop nor -nostop has set the terminate time to the default its usage
\* message documents, 10.0 seconds; for the Master and the wheelbot file.
C20_DefaultStopIsDocumented ==
  (pass \in {"wheelbot", "master"} /\ Completed /\ NoStopOption(args.argv)) =>
    sim.terminate_time = UsageDefaultStop

\* The source find_clang_format is to take the formatter from: --llvm_bin,
\* else LLVM_HOME, else /usr/bin, else /usr/local/bin, else the highest-named
\* version under /usr/local/Cellar/llvm; None when there is none.
HighestNamed(versions) ==
  CHOOSE v \in { versions[i].version : i \in 1..Len(versions) } :
    \A i \in 1..Len(versions) : ~StrLess(v, versions[i].version)

SelectedSource(llvm_bin, env) ==
  IF llvm_bin # None THEN PathJoin(llvm_bin, "clang-format")
  ELSE IF env.LLVM_HOME # None THEN PathJoin(env.LLVM_HOME, "clang-format")
  ELSE IF env.usr_bin THEN "/usr/bin/clang-format"
  ELSE IF env.usr_local_bin THEN "/usr/local/bin/clang-format"
  ELSE IF env.cellar.exists /\ env.cellar.versions # << >>
  THEN PathJoin(PathJoin(PathJoin(CellarDir, HighestNamed(env.cellar.versions)), "bin"),
                "clang-format")
  ELSE None

\* C16: find_clang_format takes the formatter from the first applicable
\* source in the order --llvm_bin, LLVM_HOME, /usr/bin, /usr/local/bin,
\* highest-named Cellar version; when that source holds a clang-format file
\* it returns that file's path, with verbose on or off, and it never returns
\* a path that is not an existing file.
C16_FormatterFromFirstSource ==
  (pass = "find_clang_format" /\ phase = "called") =>
    /\ ToolIsFile(args.env, SelectedSource(args.llvm_bin, args.env)) =>
         out.returned = SelectedSource(args.llvm_bin, args.env)
    /\ out.returned # None => ToolIsFile(args.env, out.returned)

\* The source directories are as they were when the run began, and neither
\* os.symlink nor the formatter was called.
NothingTouched ==
  /\ fs = [ d \in LeafDirs |-> args.leaf0 ]
  /\ out.symlinks = {} /\ out.commands = {}

\* The cases in which the run is to stop with an error: the home or one of
\* its four directories is missing, no formatter binary is installed, the
\* --file target is missing or a link, or the flags are incompatible.
NoFormatterInstalled(a) ==
  ~a.env.usr_bin /\ (a.llvm_bin = None \/ ~a.env.llvm_dir_bin)
    /\ (a.env.LLVM_HOME = None \/ ~a.env.llvm_dir_bin)

ErrorCase(a) ==
  \/ a.thla_home = None /\ trickhla_home(a) # HomeDir
  \/ a.top # TopDirs
  \/ NoFormatterInstalled(a)
  \/ a.file # None /\ (~IsFile(a.file) \/ IsLink(a.file))
  \/ a.in_place /\ a.clean
  \/ a.file # None /\ a.clean

\* C13: in every error case the run never prints the final success message
\* and has formatted, created and removed nothing; once it has ended it has
\* ended by a reported failure, error or exception, or by the user's refusal.
C13_FailFast ==
  (pass = "format" /\ ErrorCase(args)) =>
    /\ out.success = None
    /\ NothingTouched
    /\ phase = "ended" =>
         (out.failure # None \/ out.errors # {} \/ out.raised # None \/ out.exited)

\* C14: a run with --test changes nothing in the tree, whatever the mode:
\* no '.clang-format' link and no 'formatted' directory is created or
\* removed, no file is written, and the formatter is never run.
C14_TestChangesNothing ==
  (pass = "format" /\ args.test) => NothingTouched

C14_Witness ==
  /\ pass = "format" /\ args.test /\ ~args.clean /\ args.file = None
  /\ args.leaf0.clang = "none" /\ ~args.leaf0.formatted.exists
  /\ out.success # None
  /\ out.visited = LeafDirs \ {PathJoin(HomeDir, "models/Wheelbot/src")}

\* C15: every directory cleanup_directory was called on without --test has
\* no 'formatted' directory and no '.clang-format' link, whatever 'formatted'
\* held, and a regular '.clang-format' file is still there.
C15_CleanupRemovesArtifacts ==
  (pass = "format" /\ args.clean /\ ~args.test) =>
    \A d \in out.visited :
      /\ ~fs[d].formatted.exists
      /\ fs[d].clang # "link"
      /\ args.leaf0.clang = "file" => fs[d].clang = "file"

\* C17: a run without --file and without --clean that printed its success
\* message has formatted the source files of every directory under include,
\* source and models.
C17_WholeTreeFormatted ==
  (pass = "format" /\ args.file = None /\ ~args.clean /\ ~args.test /\ out.success # None) =>
    \A d \in LeafDirs :
      (RegularFiles \cap SourceExtension) \subseteq
        (IF args.in_place THEN fs[d].rewritten ELSE fs[d].formatted.files)

C19_LinkOnlyWhenAbsent ==
  (pass = "format" /\ ~args.clean) =>
    /\ \A d \in out.symlinks : args.leaf0.clang = "none"
    /\ args.leaf0.clang # "none" => \A d \in LeafDirs : fs[d].clang = args.leaf0.clang


\* A command line every option of which is known and has its argument.
RECURSIVE WellFormedFrom(_, _)
WellFormedFrom(argv, i) ==
  IF i > Len(argv) THEN TRUE
  ELSE CASE argv[i] = "-stop" ->
              i + 1 <= Len(argv) /\ ParsesAsFloat(argv[i + 1]) /\ WellFormedFrom(argv, i + 2)
         [] argv[i] = "-verbose" ->
              i + 1 <= Len(argv) /\ argv[i + 1] \in {"on", "off"} /\ WellFormedFrom(argv, i + 2)
         [] argv[i] = "-nostop" -> WellFormedFrom(argv, i + 1)
         [] OTHER -> FALSE

\* The stop time asked for by the last -stop / -nostop from position i on:
\* the time, None after -nostop, and unset when there is neither.
RECURSIVE LastStopFrom(_, _, _)
LastStopFrom(argv, i, unset) ==
  IF i > Len(argv) THEN unset
  ELSE CASE argv[i] = "-stop" -> LastStopFrom(argv, i + 2, Float(argv[i + 1]))
         [] argv[i] = "-verbose" -> LastStopFrom(argv, i + 2, unset)
         [] OTHER -> LastStopFrom(argv, i + 1, None)

\* C21: an input file that ran to its end on a well-formed command line
\* with a -stop or -nostop option has set the terminate time to the time of
\* the last one when that is '-stop t', for every t, 0 included, and has
\* set no terminate time when it is '-nostop'.
C21_LastStopOptionDecides ==
  (/\ pass \in {"wheelbot", "master"} /\ Completed
   /\ WellFormedFrom(args.argv, 3) /\ ~NoStopOption(args.argv)) =>
    sim.terminate_time = LastStopFrom(args.argv, 3, None)


\* C22: a constructed JEODRefFrameTreeObject holds the federate instance it
\* was given in its federate attribute and the nine frames of the tree
\* instance in its frame attributes, none of them None.
C22_TreeObjectKeepsItsInputs ==
  (pass = "jeod" /\ Completed) =>
    /\ sim.federate = fed.name
    /\ sim.ssbary_frame = "ssbary_frame_ptr"
    /\ sim.sun_frame = "sun_frame_ptr"
    /\ sim.embary_frame = "embary_frame_ptr"
    /\ sim.earth_frame = "earth_frame_ptr"
    /\ sim.moon_frame = "moon_frame_ptr"
    /\ sim.mars_frame = "mars_frame_ptr"
    /\ sim.earth_pfix_frame = "earth_pfix_frame_ptr"
    /\ sim.moon_pfix_frame = "moon_pfix_frame_ptr"
    /\ sim.mars_pfix_frame = "mars_pfix_frame_ptr"


\* The statement op of the construction of ref has been executed.
ExecutedFor(op, ref) ==
  \E i \in 1..Len(Script) : i < ip /\ Script[i].op = op /\ Script[i].ref = ref

\* The descriptor ref holds the simulation-object name it was constructed
\* with, and every attribute built so far is bound below that name.
KeepsOwn(ref) ==
  /\ objs[ref].trick_entity_sim_obj_name = args[ref].entity_S_define_instance_name
  /\ \A i \in 1..Len(objs[ref].attributes) :
       objs[ref].attributes[i].local_binding =
         args[ref].entity_S_define_instance_name \o EntityAttributeTable[i][2]

\* C23: of two SpaceFOMPhysicalEntityObject instances built in one process
\* with different S_define instance names, in either order, each keeps its
\* own simulation-object name and its own attribute bindings from the moment
\* its name is saved on; the construction of the second changes nothing of
\* the first.
C23_NoSharedConstructionState ==
  (/\ pass = "pair"
   /\ args.first.entity_S_define_instance_name # args.second.entity_S_define_instance_name) =>
    \A ref \in {"first", "second"} :
      ExecutedFor("save_sim_obj_name", ref) => KeepsOwn(ref)

C23_Witness ==
  /\ pass = "pair" /\ Completed /\ built = {"first", "second"}
  /\ args.first.entity_S_define_instance_name = "rover"
  /\ args.second.entity_S_define_instance_name = "lander"
  /\ objs["first"].trick_entity_sim_obj_name = "rover"
  /\ objs["first"].attributes[5].local_binding = "rover.stc_encoder.buffer"
  /\ objs["second"].attributes[5].local_binding = "lander.stc_encoder.buffer"


\* The attribute names of a PhysicalEntity, in registration order.
PhysicalEntityAttributeOrder ==
  << "name", "type", "status", "parent_reference_frame", "state", "acceleration",
     "rotational_acceleration", "center_of_mass", "body_wrt_structural" >>

\* C24: every SpaceFOMPhysicalEntityObject that was constructed has exactly
\* the nine attributes name, type, status, parent_reference_frame, state,
\* acceleration, rotational_acceleration, center_of_mass,
\* body_wrt_structural, in that order, each with the update policy
\* initialize-and-cyclic; two constructions with equal inputs have equal
\* attribute sequences.
C24_AttributeListDeterministic ==
  (pass = "pair") =>
    /\ \A ref \in built :
         /\ LogicalNames(ref) = PhysicalEntityAttributeOrder
         /\ \A i \in 1..Len(Attributes(ref)) :
              Attributes(ref)[i].update_policy = {"INITIALIZE", "CYCLIC"}
    /\ (built = {"first", "second"} /\ args.first = args.second) =>
         Attributes("first") = Attributes("second")

C24_Witness ==
  /\ pass = "pair" /\ Completed /\ built = {"first", "second"}
  /\ args.first = args.second
  /\ args.first.create_entity_object /\ args.first.entity_instance_name = "Lander"
  /\ Len(Attributes("first")) = 9 /\ Len(Attributes("second")) = 9
  /\ Attributes("second")[9].logical_name = "body_wrt_structural"


\* C25: every attribute descriptor built in a configuration pass is locally
\* owned exactly when it is published; in a SpaceFOMPhysicalEntityObject
\* both equal the create flag, and the wheelbot 'state' attribute has both.
C25_OwnedIffPublished ==
  (pass \in RepositoryPasses) =>
    \A r \in DOMAIN objs : \A i \in 1..Len(Attributes(r)) :
      /\ Attributes(r)[i].locally_owned = Attributes(r)[i].publish
      /\ pass = "entity" => Attributes(r)[i].publish = args.create_entity_object
      /\ pass = "wheelbot" => Attributes(r)[i].publish

C25_Witness ==
  /\ pass = "entity" /\ Completed /\ "self" \in built
  /\ ~args.create_entity_object
  /\ Len(Attributes("self")) = 9
  /\ \A i \in 1..9 : /\ ~Attributes("self")[i].locally_owned
                     /\ ~Attributes("self")[i].publish
                     /\ Attributes("self")[i].subscribe


\* ---------------------------------------------------------------------------
\* The wiring of the JEOD reference-frame tree.

\* The simulation objects whose members the frame calls name.
JEODSimObjects ==
  { "solar_system_barycenter", "sun_inertial", "earth_moon_barycenter",
    "earth_centered_inertial", "moon_centered_inertial", "mars_centered_inertial",
    "earth_centered_fixed", "moon_centered_fixed", "mars_centered_fixed" }

\* The call of the tree's constructor that built the frame object ref.
FrameCallOf(ref) ==
  CHOOSE s \in { Script[i] : i \in 1..Len(Script) } : s.op = "new_ref_frame" /\ s.ref = ref

\* The frame object takes its packing and its four hooks from one simulation object.
WiredFrom(ref, simobj) ==
  /\ objs[ref].packing = simobj \o ".frame_packing"
  /\ objs[ref].conditional = simobj \o ".conditional"
  /\ objs[ref].lag_comp = simobj \o ".lag_compensation"
  /\ objs[ref].ownership = simobj \o ".ownership_handler"
  /\ objs[ref].deleted = simobj \o ".deleted_callback"

\* The parent packing handed to the call is the packing of the frame whose name
\* is the parent name handed to the same call.
ParentAgrees(ref) ==
  \E p \in FrameRefs :
    /\ objs[p].fom_type_name = objs[ref].parent_frame_name
    /\ objs[p].packing = FrameCallOf(ref).parent_packing

\* C26: in the JEOD tree every non-root frame takes its packing object and its
\* conditional, lag-compensation, ownership and deleted hooks from one and the
\* same simulation object, its parent packing and parent name denote the same
\* parent frame, and it receives the constructor's lag_comp_type and create
\* flag; the root frame receives the create flag, no hook and no lag_comp_type;
\* a finished construction has built eight non-root frames and one root.
C26_FramesWiredConsistently ==
  pass = "jeod" =>
    /\ \A r \in FrameRefs :
         /\ objs[r].hla_create = args.create_frame_objects
         /\ IF objs[r].is_root
              THEN /\ objs[r].conditional = None /\ objs[r].lag_comp = None
                   /\ objs[r].ownership = None /\ objs[r].deleted = None
                   /\ objs[r].lag_comp_type = "LAG_COMPENSATION_NONE"
              ELSE /\ \E o \in JEODSimObjects : WiredFrom(r, o)
                   /\ ParentAgrees(r)
                   /\ objs[r].lag_comp_type = args.lag_comp_type
    /\ Completed =>
         /\ Cardinality({ r \in FrameRefs : ~objs[r].is_root }) = 8
         /\ Cardinality({ r \in FrameRefs : objs[r].is_root }) = 1

C26_Witness ==
  /\ pass = "jeod" /\ Completed
  /\ args.create_frame_objects /\ args.lag_comp_type = "LAG_COMPENSATION_SEND_SIDE"
  /\ "moon_pfix_frame_obj" \in FrameRefs
  /\ WiredFrom("moon_pfix_frame_obj", "moon_centered_fixed")
  /\ objs["moon_pfix_frame_obj"].lag_comp_type = "LAG_COMPENSATION_SEND_SIDE"
  /\ ParentAgrees("moon_pfix_frame_obj")


\* ---------------------------------------------------------------------------
\* The confirmation of an in-place run.

\* C27: with --in_place and without --test nothing is formatted unless the
\* answer to the prompt is exactly 'y': while no answer or another answer has
\* been given, no formatter command has run and no symbolic link or directory
\* has been made, and any other answer ends the run there.
C27_OnlyYesFormatsInPlace ==
  (pass = "format" /\ args.in_place /\ ~args.test) =>
    /\ out.check_in_place # "y" => NothingTouched
    /\ out.check_in_place \notin {None, "y"} => phase = "ended" /\ out.exited

C27_Witness ==
  /\ pass = "format" /\ args.in_place /\ ~args.test
  /\ out.check_in_place = "Y"
  /\ phase = "ended" /\ out.exited /\ NothingTouched


\* ---------------------------------------------------------------------------
\* The working directory across the calls of main.

\* The source path the directory loop is in.
CurrentSrcPath == trickhla_src_paths(HomeDir)[ip - 1]

\* C28: every call of format_directory, format_file and cleanup_directory that
\* returns (on success, in a test-only run, or at an early error return of
\* format_file) leaves the working directory where it was at entry, so that
\* the directory loop of main is still in the source path it moved into when
\* it takes the next entry.
C28_WorkingDirectoryRestored ==
  pass = "format" =>
    /\ \A call \in out.calls : call.raised = None => call.exit = call.entry
    /\ (phase = "work" /\ args.file = None /\ ip > 1) =>
         /\ cwd = CurrentSrcPath
         /\ \A call \in out.calls :
              \E i \in 1..(ip - 1) : call.entry = trickhla_src_paths(HomeDir)[i]
    /\ (phase \in {"finish", "ended"} /\ args.file # None /\ out.calls # {}
          /\ out.raised = None) => cwd = HomeDir

C28_Witness ==
  /\ pass = "format" /\ args.file = None /\ args.test
  /\ phase = "work" /\ ip > 1 /\ out.pending # << >>
  /\ \E call \in out.calls :
       call.raised = None /\ call.exit = call.entry /\ call.dir # call.entry
  /\ cwd = CurrentSrcPath

====
